---- MODULE Spec2Model ----
(***************************************************************************)
(* Verification model of the Aptos DEX aggregator backend:                 *)
(*   - PoolService   (backend/src/services/poolService.ts): the pool cache *)
(*     and its refresh cycle,                                              *)
(*   - RouterService (backend/src/services/routerService.ts): path search  *)
(*     and route selection,                                                *)
(*   - MathUtils (sdk/src/math.ts) and aggregator::math                    *)
(*     (sources/math.move): the pricing functions,                         *)
(*   - aggregator::router (the Move router): configuration, pause, swaps,  *)
(*   - AptosRouter (sdk/src/router.ts): the SDK's local route search.      *)
(*                                                                         *)
(* Node.js runs one handler at a time; a handler is interrupted only at an *)
(* `await`.  Every action below is therefore one run-to-completion segment *)
(* of a handler: from its entry or from the resumption of an await to the  *)
(* next await or to its return.                                            *)
(*                                                                         *)
(* Strings that the code compares or concatenates (coin types, pair keys)  *)
(* are sequences of character codes.  In the cache and the router Decimal  *)
(* amounts are exact rationals <<numerator, denominator>>: decimal.js      *)
(* keeps 20 significant digits and the values there are far apart from     *)
(* that precision.  The pricing functions on their own are computed with   *)
(* decimal.js's 20 digits and rounding (SpecMath) and, for Move, on        *)
(* integers with flooring division (SpecMove).                             *)
(***************************************************************************)
EXTENDS Integers, Sequences, FiniteSets, TLC

VARIABLES
    phase,           \* startServer(): "constructed", "initializing", "listening", "exited"
    refresh,         \* the activations of refreshAllPools, one per caller
    pools,           \* PoolService.pools: Map poolAddress -> Pool, in insertion order
    poolsByPair,     \* PoolService.poolsByPair: Map pairKey -> Pool[]
    lastUpdateTime,  \* PoolService.lastUpdateTime
    now,             \* Date.now()
    published,       \* history: what the last completed refresh fetched
    seen,            \* the answer of the cache read handled last
    quote,           \* the quote request handled last and findBestRoute's answer
    selIn,           \* candidate routes handed to the route selector
    selOut,          \* the selector's answer for selIn
    call,            \* the library function called last, with its arguments
    ret,             \* what that call returned or threw
    chain            \* on chain: AggregatorConfig per address, SwapEvents emitted

vars == <<phase, refresh, pools, poolsByPair, lastUpdateTime, now, published,
          seen, quote, selIn, selOut, call, ret,
                   chain>>

None == "none"

\* A const declaration: the initialiser is evaluated once, before the
\* statements F that use it.
Bind(x, F(_)) == CHOOSE r \in {F(v) : v \in {x}} : TRUE
Bind2(x, y, F(_, _)) == CHOOSE r \in {F(v, w) : v \in {x}, w \in {y}} : TRUE

-----------------------------------------------------------------------------
(* Bounds *)

MaxTime == 2          \* Date.now() takes the values 1..MaxTime
MaxRoutes == 6        \* longest candidate list handed to the selector
MaxAmountUnits == 3   \* selector candidates: amountOut in 0..MaxAmountUnits half-epsilons
MaxPairPools == 2     \* pools of one pair in the cache of SpecBest
MaxAmountIn == 12     \* trade sizes 0..MaxAmountIn in the Move math functions

-----------------------------------------------------------------------------
(* Strings *)

Colon == 58           \* ':'
ChA == 97             \* 'a'
ChB == 98             \* 'b'

\* JavaScript's  s < t  on strings: lexicographic on code units.
StrLess(s, t) ==
    \E i \in 1..(Len(s) + 1) :
        /\ \A j \in 1..(i - 1) : j <= Len(t) /\ s[j] = t[j]
        /\ \/ i = Len(s) + 1 /\ Len(t) >= i
           \/ i <= Len(s) /\ i <= Len(t) /\ s[i] < t[i]

\* Coin types, shortened from 0x<addr>::<module>::<name> to <x>::<y>.
APT  == <<ChA, Colon, Colon, ChA>>
USDC == <<ChA, Colon, Colon, ChB>>
USDT == <<ChB, Colon, Colon, ChA>>
BTC  == <<ChB, Colon, Colon, ChB>>

Coins == {APT, USDC, USDT, BTC}

\* Strings a client may send as coin_a / coin_b of GET /pools: no format
\* check is applied to them before getPoolsForPair.
QueryA == <<ChA, Colon>>
QueryB == <<ChB, Colon, ChB, Colon, Colon, ChA>>
QueryPairs == {<<USDC, USDT>>, <<USDT, USDC>>, <<APT, USDC>>, <<USDC, APT>>,
               <<QueryA, QueryB>>, <<QueryB, QueryA>>}

getPairKey(coinA, coinB) ==
    IF StrLess(coinA, coinB) THEN coinA \o <<Colon>> \o coinB
                             ELSE coinB \o <<Colon>> \o coinA

-----------------------------------------------------------------------------
(* Pools and providers *)

CETUS == "CETUS"
PANCAKESWAP == "PANCAKESWAP"
LIQUIDSWAP == "LIQUIDSWAP"
Dexes == {CETUS, PANCAKESWAP, LIQUIDSWAP}

Pool(addr, a, b, dex, ra, rb, fee) ==
    [poolAddress |-> addr, coinA |-> a, coinB |-> b, dexType |-> dex,
     reserveA |-> ra, reserveB |-> rb, feeRate |-> fee]

\* The pools of the model.  APT/USDC has a pool on two exchanges, the
\* PancakeSwap one listed with its coins in the other order and paying more;
\* APT - USDC - USDT - BTC is a chain of three pools.
PoolAptUsdc  == Pool("pool_apt_usdc", APT, USDC, CETUS, 8, 8, 0)
PoolUsdcUsdt == Pool("pool_usdc_usdt", USDC, USDT, CETUS, 8, 8, 0)
PoolUsdcApt  == Pool("pool_usdc_apt", USDC, APT, PANCAKESWAP, 16, 8, 0)
PoolUsdtApt  == Pool("pool_usdt_apt", USDT, APT, PANCAKESWAP, 8, 8, 5000)
PoolUsdtBtc  == Pool("pool_usdt_btc", USDT, BTC, LIQUIDSWAP, 8, 8, 0)

\* The outcome of one provider call: the pool records, or an exception.
Returned(list) == [outcome |-> "returned", pools |-> list]
Failure == [outcome |-> "failed", pools |-> <<>>]
Pending == [outcome |-> "pending", pools |-> <<>>]

\* What the providers answer during the refreshes of the running service.
CetusAnswers   == {Returned(<<PoolAptUsdc>>),
                   Returned(<<PoolAptUsdc, PoolUsdcUsdt>>), Failure}
PancakeAnswers == {Returned(<<PoolUsdcApt>>), Failure}
LiquidAnswers  == {Returned(<<PoolUsdtBtc>>), Failure}

\* What the providers answered in the refresh before a quote.
CetusLists   == {<<>>, <<PoolAptUsdc>>, <<PoolUsdcUsdt>>,
                 <<PoolAptUsdc, PoolUsdcUsdt>>}
PancakeLists == {<<>>, <<PoolUsdcApt>>, <<PoolUsdtApt>>,
                 <<PoolUsdcApt, PoolUsdtApt>>}
\* A record that a provider reports without its coins: pool.coinA is
\* undefined, and line 85 throws a TypeError on pool.coinA.type.
Undefined == <<>>

PoolMalformed == Pool("pool_malformed", Undefined, Undefined, LIQUIDSWAP, 8, 8, 0)

FaultyLiquidAnswers ==
    LiquidAnswers \cup {Returned(<<PoolUsdtBtc, PoolMalformed>>)}
LiquidLists  == {<<>>, <<PoolUsdtBtc>>}

\* A provider that reports a pool address a second time: the address of the
\* Cetus pool APT/USDC with other reserves, or its own record twice.
PoolAptUsdcAgain == Pool("pool_apt_usdc", APT, USDC, LIQUIDSWAP, 16, 8, 0)

DuplicateLiquidAnswers ==
    LiquidAnswers \cup {Returned(<<PoolAptUsdcAgain>>),
                        Returned(<<PoolUsdtBtc, PoolUsdtBtc>>)}

\* fetchCetusPools / fetchPancakePools / fetchLiquidSwapPools: the body is
\* wrapped in try/catch and the catch returns [].  The result says whether
\* the function threw and, if not, what it returned.
fetchPoolsRethrow(answer) ==
    [threw |-> answer.outcome = "failed", value |-> answer.pools]

fetchPools(answer) ==
    [threw |-> FALSE,
     value |-> IF answer.outcome = "failed" THEN <<>> ELSE answer.pools]

-----------------------------------------------------------------------------
(* The index of the cache *)

RECURSIVE IndexOfAddress(_, _, _)
IndexOfAddress(list, addr, i) ==
    IF i > Len(list) THEN 0
    ELSE IF list[i].poolAddress = addr THEN i
    ELSE IndexOfAddress(list, addr, i + 1)

\* Map.prototype.set on this.pools: an existing key keeps its position.
MapSet(map, pool) ==
    LET i == IndexOfAddress(map, pool.poolAddress, 1)
    IN  IF i = 0 THEN Append(map, pool)
        ELSE [map EXCEPT ![i] = pool]

\* Lines 85-89: index the pool under its pair key.
PairPush(byPair, pool) ==
    LET pairKey == getPairKey(pool.coinA, pool.coinB)
    IN  IF pairKey \in DOMAIN byPair
        THEN [byPair EXCEPT ![pairKey] = Append(@, pool)]
        ELSE [k \in DOMAIN byPair \cup {pairKey} |->
                 IF k = pairKey THEN <<pool>> ELSE byPair[k]]

EmptyMap == [k \in {} |-> <<>>]

\* Lines 78-90: clear both maps, then insert every pool of allPools.
RECURSIVE BuildFrom(_, _, _)
BuildFrom(allPools, i, idx) ==
    IF i > Len(allPools) THEN idx
    ELSE Bind2(MapSet(idx.pools, allPools[i]),
               PairPush(idx.poolsByPair, allPools[i]),
               LAMBDA ps, byPair :
                   BuildFrom(allPools, i + 1,
                             [pools |-> ps, poolsByPair |-> byPair]))

BuildIndexKeepOld(old, allPools) ==
    Bind2(old, allPools, LAMBDA idx, list : BuildFrom(list, 1, idx))

BuildIndex(old, allPools) ==
    Bind(allPools, LAMBDA list :
        BuildFrom(list, 1, [pools |-> <<>>, poolsByPair |-> EmptyMap]))

RECURSIVE FirstMalformed(_, _)
FirstMalformed(allPools, i) ==
    IF i > Len(allPools) THEN 0
    ELSE IF allPools[i].coinA = Undefined THEN i
    ELSE FirstMalformed(allPools, i + 1)

\* Lines 78-90 with their exception: the maps are cleared and filled in
\* place, so a throw at line 85 leaves them holding the records before the
\* malformed one, and this.pools the malformed one as well (line 82).
RefreshBuild(old, allPools) ==
    Bind(FirstMalformed(allPools, 1), LAMBDA k :
        IF k = 0
        THEN [threw |-> FALSE, index |-> BuildIndex(old, allPools)]
        ELSE Bind(BuildIndex(old, SubSeq(allPools, 1, k - 1)), LAMBDA part :
                [threw |-> TRUE,
                 index |-> [pools |-> MapSet(part.pools, allPools[k]),
                            poolsByPair |-> part.poolsByPair]]))

\* Line 75.
CombineAll(cetusPools, pancakePools, liquidSwapPools) ==
    cetusPools \o pancakePools \o liquidSwapPools

-----------------------------------------------------------------------------
(* Cache reads *)

getAllPools(ps) == ps

getPoolsForPair(byPair, coinA, coinB) ==
    LET pairKey == getPairKey(coinA, coinB)
    IN  IF pairKey \in DOMAIN byPair THEN byPair[pairKey] ELSE <<>>

\* The result is <<pool>>, or <<>> for undefined.
getPool(ps, poolAddress) ==
    LET i == IndexOfAddress(ps, poolAddress, 1)
    IN  IF i = 0 THEN <<>> ELSE <<ps[i]>>

getPoolCount(ps) == Len(ps)

StaleAfter == 60000

getHealthStatus(ps, lut, t) ==
    [status |-> IF t - lut < StaleAfter THEN "healthy" ELSE "stale",
     poolCount |-> Len(ps), lastUpdate |-> lut, timeSinceUpdate |-> t - lut]

-----------------------------------------------------------------------------
(* Decimal arithmetic (decimal.js), as exact rationals <<n, d>> with d > 0 *)

RECURSIVE GCD(_, _)
GCD(a, b) == IF b = 0 THEN a ELSE GCD(b, a % b)

Abs(x) == IF x < 0 THEN -x ELSE x

Rat(n, d) ==
    LET g == GCD(Abs(n), Abs(d))
        sign == IF d < 0 THEN -1 ELSE 1
    IN  <<(sign * n) \div g, (sign * d) \div g>>

Dec(i) == <<i, 1>>
RatAdd(x, y) == Bind2(x, y, LAMBDA a, b : Rat(a[1] * b[2] + b[1] * a[2], a[2] * b[2]))
RatSub(x, y) == Bind2(x, y, LAMBDA a, b : Rat(a[1] * b[2] - b[1] * a[2], a[2] * b[2]))
RatMul(x, y) == Bind2(x, y, LAMBDA a, b : Rat(a[1] * b[1], a[2] * b[2]))
RatDiv(x, y) == Bind2(x, y, LAMBDA a, b : Rat(a[1] * b[2], a[2] * b[1]))
RatAbs(x) == Bind(x, LAMBDA a : <<Abs(a[1]), a[2]>>)
RatGt(x, y) == Bind2(x, y, LAMBDA a, b : a[1] * b[2] > b[1] * a[2])
RatGte(x, y) == Bind2(x, y, LAMBDA a, b : a[1] * b[2] >= b[1] * a[2])
RatLte(x, y) == Bind2(x, y, LAMBDA a, b : a[1] * b[2] <= b[1] * a[2])
RatFloor(x) == Bind(x, LAMBDA a : a[1] \div a[2])

BASIS_POINTS == 10000

\* The result of a call that may throw.
Value(v) == [threw |-> FALSE, value |-> <<v>>]
Throw == [threw |-> TRUE, value |-> <<>>]

-----------------------------------------------------------------------------
(* Decimal arithmetic (decimal.js) with its precision                       *)
(*                                                                         *)
(* A natural number is the sequence of its base-10000 digits ("words"),    *)
(* lowest first, without leading zero words (zero is the empty sequence);  *)
(* decimal.js keeps coefficients in words of 7 digits in the same way.  A  *)
(* Decimal is [s, c, e]: sign s, coefficient c (a natural number) and      *)
(* exponent e, of value s * c * 10^e.  plus, minus, times and div round    *)
(* their exact result to PRECISION significant digits, half up; the        *)
(* constructor and the comparisons do not round.                           *)

PRECISION == 20      \* Decimal.precision, the default of decimal.js
BASE == 10000
LOG_BASE == 4

Max(a, b) == IF a >= b THEN a ELSE b

MaxOf(S) == CHOOSE m \in S : \A k \in S : k <= m

Pow10(k) == <<1, 10, 100, 1000>>[k + 1]

Word(a, i) == IF i >= 1 /\ i <= Len(a) THEN a[i] ELSE 0

TrimN(a) ==
    Bind(a, LAMBDA x :
        Bind({i \in 1..Len(x) : x[i] # 0}, LAMBDA nz :
            IF nz = {} THEN <<>> ELSE SubSeq(x, 1, MaxOf(nz))))

AddN(a, b) ==
    Bind2(a, b, LAMBDA x, y :
        LET n == Max(Len(x), Len(y))
            carry[i \in 0..n] ==
                IF i = 0 THEN 0
                ELSE (Word(x, i) + Word(y, i) + carry[i - 1]) \div BASE
        IN  TrimN([i \in 1..(n + 1) |->
                     (Word(x, i) + Word(y, i) + carry[i - 1]) % BASE]))

\* a - b for a >= b.
SubN(a, b) ==
    Bind2(a, b, LAMBDA x, y :
        LET borrow[i \in 0..Len(x)] ==
                IF i = 0 THEN 0
                ELSE IF x[i] - Word(y, i) - borrow[i - 1] < 0 THEN 1 ELSE 0
        IN  TrimN([i \in 1..Len(x) |->
                     (x[i] - Word(y, i) - borrow[i - 1] + BASE) % BASE]))

\* -1, 0 or 1 as a is less than, equal to or greater than b.
CmpN(a, b) ==
    Bind2(a, b, LAMBDA x, y :
        IF Len(x) < Len(y) THEN -1
        ELSE IF Len(x) > Len(y) THEN 1
        ELSE Bind({i \in 1..Len(x) : x[i] # y[i]}, LAMBDA diff :
                IF diff = {} THEN 0
                ELSE IF x[MaxOf(diff)] < y[MaxOf(diff)] THEN -1 ELSE 1))

\* a * k for 0 <= k <= BASE.
MulSmall(a, k) ==
    Bind(a, LAMBDA x :
        LET carry[i \in 0..Len(x)] ==
                IF i = 0 THEN 0 ELSE (x[i] * k + carry[i - 1]) \div BASE
        IN  TrimN([i \in 1..(Len(x) + 1) |->
                     (Word(x, i) * k + carry[i - 1]) % BASE]))

\* The quotient of a by k, for 1 <= k <= BASE.
DivSmall(a, k) ==
    Bind(a, LAMBDA x :
        LET rem[i \in 1..(Len(x) + 1)] ==
                IF i = Len(x) + 1 THEN 0
                ELSE (rem[i + 1] * BASE + x[i]) % k
        IN  TrimN([i \in 1..Len(x) |-> (rem[i + 1] * BASE + x[i]) \div k]))

MulN(a, b) ==
    Bind2(a, b, LAMBDA x, y :
        LET n == Len(x)
            m == Len(y)
            column[j \in 1..(n + m), i \in 0..n] ==
                IF i = 0 THEN 0
                ELSE column[j, i - 1] + x[i] * Word(y, j - i + 1)
            carry[j \in 0..(n + m)] ==
                IF j = 0 THEN 0
                ELSE (column[j, n] + carry[j - 1]) \div BASE
        IN  TrimN([j \in 1..(n + m) |->
                     (column[j, n] + carry[j - 1]) % BASE]))

\* The largest q with b * q <= cur, for cur < b * BASE.
QuotientWord(cur, b) ==
    LET search[lo \in 0..(BASE - 1), hi \in 0..(BASE - 1)] ==
            IF lo = hi THEN lo
            ELSE IF CmpN(MulSmall(b, (lo + hi + 1) \div 2), cur) <= 0
                 THEN search[(lo + hi + 1) \div 2, hi]
                 ELSE search[lo, ((lo + hi + 1) \div 2) - 1]
    IN  search[0, BASE - 1]

\* Long division, from the leading word of a down to its lowest.
RECURSIVE DivFrom(_, _, _, _, _)
DivFrom(a, b, i, rem, q) ==
    IF i = 0 THEN TrimN(q)
    ELSE Bind(TrimN(<<a[i]>> \o rem), LAMBDA cur :
            Bind(QuotientWord(cur, b), LAMBDA w :
                DivFrom(a, b, i - 1, SubN(cur, MulSmall(b, w)), <<w>> \o q)))

\* The integer quotient of a by b, for b # 0.
DivN(a, b) == Bind2(a, b, LAMBDA x, y : DivFrom(x, y, Len(x), <<>>, <<>>))

\* a * 10^k and the quotient of a by 10^k.
ShiftN(a, k) ==
    Bind(MulSmall(a, Pow10(k % LOG_BASE)), LAMBDA x :
        IF x = <<>> THEN x ELSE [i \in 1..(k \div LOG_BASE) |-> 0] \o x)

DropN(a, k) ==
    Bind(a, LAMBDA x :
        IF k \div LOG_BASE >= Len(x) THEN <<>>
        ELSE DivSmall(SubSeq(x, (k \div LOG_BASE) + 1, Len(x)),
                      Pow10(k % LOG_BASE)))

\* The number of decimal digits of a.
DigitsN(a) ==
    Bind(a, LAMBDA x :
        IF x = <<>> THEN 0
        ELSE LOG_BASE * (Len(x) - 1)
             + (IF x[Len(x)] >= 1000 THEN 4 ELSE IF x[Len(x)] >= 100 THEN 3
                ELSE IF x[Len(x)] >= 10 THEN 2 ELSE 1))

\* n as a natural number, for an integer n >= 0 of the model.
FromNat(n) == TrimN(<<n % BASE, (n \div BASE) % BASE, n \div (BASE * BASE)>>)

\* finalise(): round s * c * 10^e to PRECISION significant digits, half up.
RoundHalfUp(s, c, e) ==
    Bind(c, LAMBDA x :
        IF DigitsN(x) <= PRECISION THEN [s |-> s, c |-> x, e |-> e]
        ELSE Bind(DigitsN(x) - PRECISION, LAMBDA drop :
                Bind(DropN(x, drop - 1), LAMBDA t :
                    [s |-> s,
                     c |-> IF t[1] % 10 >= 5 THEN AddN(DivSmall(t, 10), <<1>>)
                           ELSE DivSmall(t, 10),
                     e |-> e + drop])))

\* new Decimal(n) for an integer n, and new Decimal(n * 10^k).
D(n) == [s |-> IF n < 0 THEN -1 ELSE 1, c |-> FromNat(IF n < 0 THEN -n ELSE n),
         e |-> 0]

DE(n, k) == [s |-> IF n < 0 THEN -1 ELSE 1,
             c |-> FromNat(IF n < 0 THEN -n ELSE n), e |-> k]

\* The coefficients of x and y over their common exponent.
Aligned(x, y) ==
    Bind(IF x.e <= y.e THEN x.e ELSE y.e, LAMBDA e :
        [x |-> ShiftN(x.c, x.e - e), y |-> ShiftN(y.c, y.e - e), e |-> e])

\* The exact sum of sx * cx and sy * cy.
SignedSum(sx, cx, sy, cy, e) ==
    IF sx = sy THEN [s |-> sx, c |-> AddN(cx, cy), e |-> e]
    ELSE IF CmpN(cx, cy) >= 0 THEN [s |-> sx, c |-> SubN(cx, cy), e |-> e]
    ELSE [s |-> sy, c |-> SubN(cy, cx), e |-> e]

DecPlus(x, y) ==
    Bind2(x, y, LAMBDA u, v :
        Bind(Aligned(u, v), LAMBDA a :
            Bind(SignedSum(u.s, a.x, v.s, a.y, a.e), LAMBDA r :
                RoundHalfUp(r.s, r.c, r.e))))

DecNeg(x) == Bind(x, LAMBDA u : [s |-> -u.s, c |-> u.c, e |-> u.e])

DecMinus(x, y) == DecPlus(x, DecNeg(y))

DecTimes(x, y) ==
    Bind2(x, y, LAMBDA u, v :
        RoundHalfUp(u.s * v.s, MulN(u.c, v.c), u.e + v.e))

\* x / y for y # 0: PRECISION + 1 digits of the quotient decide the rounding.
DecDiv(x, y) ==
    Bind2(x, y, LAMBDA u, v :
        Bind(Max(0, PRECISION + 1 + DigitsN(v.c) - DigitsN(u.c)), LAMBDA k :
            RoundHalfUp(u.s * v.s, DivN(ShiftN(u.c, k), v.c), u.e - v.e - k)))

\* cmp(): -1, 0 or 1, exact; zero has no sign.
DecSign(x) == IF x.c = <<>> THEN 0 ELSE x.s

DecCmp(x, y) ==
    Bind2(x, y, LAMBDA u, v :
        IF DecSign(u) # DecSign(v)
        THEN (IF DecSign(u) < DecSign(v) THEN -1 ELSE 1)
        ELSE Bind(Aligned(u, v), LAMBDA a : DecSign(u) * CmpN(a.x, a.y)))

DecLt(x, y) == DecCmp(x, y) < 0
DecLte(x, y) == DecCmp(x, y) <= 0
DecGt(x, y) == DecCmp(x, y) > 0
DecGte(x, y) == DecCmp(x, y) >= 0

-----------------------------------------------------------------------------
(* MathUtils (sdk/src/math.ts) and PoolService.calculateOutput on Decimals *)

Returns(v) == [threw |-> FALSE, value |-> <<v>>]
Throws == [threw |-> TRUE, value |-> <<>>]

\* math.ts lines 8-12.
MathCalculateFee(amount, feeRateBp) ==
    DecTimes(amount, DecDiv(D(feeRateBp), D(BASIS_POINTS)))

\* math.ts lines 17-21.
MathAmountAfterFee(amount, feeRateBp) ==
    Bind(amount, LAMBDA a : DecMinus(a, MathCalculateFee(a, feeRateBp)))

\* math.ts lines 26-31.
calculateMinOutput(amount, slippageToleranceBp) ==
    Bind(amount, LAMBDA a :
        Returns(DecMinus(a, DecTimes(a, DecDiv(D(slippageToleranceBp),
                                               D(BASIS_POINTS))))))

\* math.ts lines 46-65.
getAmountOut(amountIn, reserveIn, reserveOut, feeRateBp) ==
    IF DecLte(amountIn, D(0)) \/ DecLte(reserveIn, D(0))
       \/ DecLte(reserveOut, D(0))
    THEN Throws
    ELSE Bind(MathAmountAfterFee(amountIn, feeRateBp), LAMBDA amountInWithFee :
            Returns(DecDiv(DecTimes(amountInWithFee, reserveOut),
                           DecPlus(reserveIn, amountInWithFee))))

\* math.ts lines 70-98.
getAmountIn(amountOut, reserveIn, reserveOut, feeRateBp) ==
    IF DecLte(amountOut, D(0)) \/ DecLte(reserveIn, D(0))
       \/ DecLte(reserveOut, D(0))
    THEN Throws
    ELSE IF DecGte(amountOut, reserveOut) THEN Throws
    ELSE Returns(DecDiv(DecTimes(DecPlus(DecDiv(DecTimes(reserveIn, amountOut),
                                                DecMinus(reserveOut, amountOut)),
                                         D(1)),
                                 D(BASIS_POINTS)),
                        D(BASIS_POINTS - feeRateBp)))

\* poolService.ts lines 203-224 with decimal.js's rounding, on the reserve of
\* the coin paid in, the reserve of the coin paid out and the pool's fee.
calculateOutputDecimal(amountIn, reserveIn, reserveOut, feeRate) ==
    IF DecLte(amountIn, D(0)) \/ DecLte(reserveIn, D(0))
       \/ DecLte(reserveOut, D(0))
    THEN Throws
    ELSE Bind(DecTimes(amountIn,
                       DecMinus(D(1), DecDiv(D(feeRate), D(BASIS_POINTS)))),
              LAMBDA amountInWithFee :
                Returns(DecDiv(DecTimes(amountInWithFee, reserveOut),
                               DecPlus(reserveIn, amountInWithFee))))

-----------------------------------------------------------------------------
(* PoolService: pricing *)

calculateOutput(pool, coinIn, amountIn) ==
    LET isA2B == pool.coinA = coinIn
        reserveIn == Dec(IF isA2B THEN pool.reserveA ELSE pool.reserveB)
        reserveOut == Dec(IF isA2B THEN pool.reserveB ELSE pool.reserveA)
    IN  IF RatLte(amountIn, Dec(0)) \/ RatLte(reserveIn, Dec(0))
           \/ RatLte(reserveOut, Dec(0))
        THEN Throw
        ELSE Bind(RatMul(amountIn,
                         RatSub(Dec(1), RatDiv(Dec(pool.feeRate), Dec(BASIS_POINTS)))),
                  LAMBDA amountInWithFee :
                      Value(RatDiv(RatMul(amountInWithFee, reserveOut),
                                   RatAdd(reserveIn, amountInWithFee))))

calculatePriceImpact(pool, coinIn, amountIn) ==
    LET isA2B == pool.coinA = coinIn
        reserveIn == Dec(IF isA2B THEN pool.reserveA ELSE pool.reserveB)
        reserveOut == Dec(IF isA2B THEN pool.reserveB ELSE pool.reserveA)
    IN  IF RatLte(reserveIn, Dec(0)) \/ RatLte(reserveOut, Dec(0))
        THEN Value(BASIS_POINTS)
        ELSE Bind2(RatDiv(reserveOut, reserveIn),
                   calculateOutput(pool, coinIn, amountIn),
                   LAMBDA spotPrice, amountOut :
                     IF amountOut.threw THEN Throw
                     ELSE Bind(RatDiv(amountOut.value[1], amountIn),
                               LAMBDA executionPrice :
                                 IF RatGte(executionPrice, spotPrice) THEN Value(0)
                                 ELSE Value(RatFloor(RatMul(
                                        RatDiv(RatSub(spotPrice, executionPrice),
                                               spotPrice),
                                        Dec(BASIS_POINTS))))))

\* The result is <<pool>>, or <<>> for null.
RECURSIVE BestPoolLoop(_, _, _, _, _, _)
BestPoolLoop(ps, i, coinA, amountIn, bestPool, bestOutput) ==
    IF i > Len(ps) THEN bestPool
    ELSE Bind(calculateOutput(ps[i], coinA, amountIn), LAMBDA output :
             IF ~output.threw /\ RatGt(output.value[1], bestOutput)
             THEN BestPoolLoop(ps, i + 1, coinA, amountIn, <<ps[i]>>,
                               output.value[1])
             ELSE BestPoolLoop(ps, i + 1, coinA, amountIn, bestPool, bestOutput))

getBestPoolForPairFirst(byPair, coinA, coinB, amountIn) ==
    Bind(getPoolsForPair(byPair, coinA, coinB), LAMBDA ps :
        IF Len(ps) = 0 THEN <<>> ELSE <<ps[1]>>)

getBestPoolForPair(byPair, coinA, coinB, amountIn) ==
    Bind2(getPoolsForPair(byPair, coinA, coinB), amountIn, LAMBDA ps, amount :
        IF Len(ps) = 0 THEN <<>>
        ELSE BestPoolLoop(ps, 1, coinA, amount, <<>>, Dec(0)))

-----------------------------------------------------------------------------
(* RouterService: candidate routes *)

Includes(excludeDexes, dexType) == dexType \in excludeDexes

Filter(ps, excludeDexes) ==
    SelectSeq(ps, LAMBDA pool : ~Includes(excludeDexes, pool.dexType))

calculateFee(amount, feeRateBp) ==
    RatMul(amount, RatDiv(Dec(feeRateBp), Dec(BASIS_POINTS)))

RouteStepSwapped(pool, coinIn, coinOut, amountIn, amountOut, priceImpact) ==
    [dexType |-> pool.dexType, coinIn |-> coinOut, coinOut |-> coinIn,
     poolAddress |-> pool.poolAddress, amountIn |-> amountIn,
     amountOut |-> amountOut, feeRate |-> pool.feeRate,
     priceImpact |-> priceImpact]

RouteStep(pool, coinIn, coinOut, amountIn, amountOut, priceImpact) ==
    [dexType |-> pool.dexType, coinIn |-> coinIn, coinOut |-> coinOut,
     poolAddress |-> pool.poolAddress, amountIn |-> amountIn,
     amountOut |-> amountOut, feeRate |-> pool.feeRate,
     priceImpact |-> priceImpact]

\* The result is <<route>>, or <<>> for null; the function catches whatever
\* its body throws.
buildSingleHopRoute(pool, coinIn, coinOut, amountIn) ==
    Bind2(calculateOutput(pool, coinIn, amountIn),
          calculatePriceImpact(pool, coinIn, amountIn),
          LAMBDA amountOut, priceImpact :
            IF amountOut.threw \/ priceImpact.threw THEN <<>>
            ELSE << [steps |-> <<RouteStep(pool, coinIn, coinOut, amountIn,
                                           amountOut.value[1],
                                           priceImpact.value[1])>>,
                     amountIn |-> amountIn,
                     amountOut |-> amountOut.value[1],
                     priceImpact |-> priceImpact.value[1],
                     fee |-> calculateFee(amountIn, pool.feeRate),
                     estimatedGas |-> 5000] >>)

\* The result is Value(route), Value of nothing for null, or Throw.
NullRoute == [threw |-> FALSE, value |-> <<>>]

\* Lines 228-269, once both pools are chosen and the first output is known.
Build2HopSteps(bestFirstPool, bestSecondPool, coinIn, intermediate, coinOut, amountIn, firstOut) ==
    Bind2(calculateOutput(bestSecondPool, intermediate, firstOut),
          <<calculatePriceImpact(bestFirstPool, coinIn, amountIn),
            calculatePriceImpact(bestSecondPool, intermediate, firstOut)>>,
          LAMBDA finalOutput, impacts :
            LET firstPriceImpact == impacts[1]
                secondPriceImpact == impacts[2]
            IN  IF finalOutput.threw \/ firstPriceImpact.threw
                   \/ secondPriceImpact.threw
                THEN Throw
                ELSE Value(
                  [steps |->
                     << RouteStep(bestFirstPool, coinIn, intermediate,
                                  amountIn, firstOut, firstPriceImpact.value[1]),
                        RouteStep(bestSecondPool, intermediate, coinOut,
                                  firstOut, finalOutput.value[1],
                                  secondPriceImpact.value[1]) >>,
                   amountIn |-> amountIn,
                   amountOut |-> finalOutput.value[1],
                   priceImpact |-> firstPriceImpact.value[1]
                                     + secondPriceImpact.value[1],
                   fee |-> RatAdd(
                       calculateFee(amountIn, bestFirstPool.feeRate),
                       calculateFee(firstOut, bestSecondPool.feeRate)),
                   estimatedGas |-> 8000]))

\* Lines 219-226, once the first pool is chosen and its output is known.
Build2HopSecond(byPair, bestFirstPool, coinIn, intermediate, coinOut, amountIn, excludeDexes, firstOut) ==
    Bind2(Filter(getPoolsForPair(byPair, intermediate, coinOut), excludeDexes),
          getBestPoolForPair(byPair, intermediate, coinOut, firstOut),
          LAMBDA secondHopPools, bestSecondPool :
            IF Len(secondHopPools) = 0 THEN NullRoute
            ELSE IF bestSecondPool = <<>> THEN NullRoute
            ELSE Build2HopSteps(bestFirstPool, bestSecondPool[1], coinIn,
                                intermediate, coinOut, amountIn, firstOut))

build2HopRoute(byPair, coinIn, intermediate, coinOut, amountIn, excludeDexes) ==
    Bind2(Filter(getPoolsForPair(byPair, coinIn, intermediate), excludeDexes),
          getBestPoolForPair(byPair, coinIn, intermediate, amountIn),
          LAMBDA firstHopPools, bestFirstPool :
            IF Len(firstHopPools) = 0 THEN NullRoute
            ELSE IF bestFirstPool = <<>> THEN NullRoute
            ELSE Bind(calculateOutput(bestFirstPool[1], coinIn, amountIn),
                      LAMBDA firstOutput :
                        IF firstOutput.threw THEN Throw
                        ELSE Build2HopSecond(byPair, bestFirstPool[1], coinIn,
                                             intermediate, coinOut, amountIn,
                                             excludeDexes,
                                             firstOutput.value[1])))

\* Set.prototype.add on an insertion-ordered Set.
SetAdd(set, x) ==
    IF \E i \in 1..Len(set) : set[i] = x THEN set ELSE Append(set, x)

\* Lines 170-183: the coins one pool away from coinIn, coinOut left out.
RECURSIVE IntermediateTokens(_, _, _, _, _, _)
IntermediateTokens(allPools, i, coinIn, coinOut, excludeDexes, acc) ==
    IF i > Len(allPools) THEN acc
    ELSE LET pool == allPools[i]
             otherCoin == IF pool.coinA = coinIn THEN pool.coinB ELSE pool.coinA
         IN  IF /\ ~Includes(excludeDexes, pool.dexType)
                /\ (pool.coinA = coinIn \/ pool.coinB = coinIn)
                /\ otherCoin # coinOut
             THEN IntermediateTokens(allPools, i + 1, coinIn, coinOut,
                                     excludeDexes, SetAdd(acc, otherCoin))
             ELSE IntermediateTokens(allPools, i + 1, coinIn, coinOut,
                                     excludeDexes, acc)

\* Lines 186-193: one 2-hop candidate per intermediate coin.
RECURSIVE TwoHopRoutes(_, _, _, _, _, _, _)
TwoHopRoutes(byPair, tokens, i, coinIn, coinOut, amountIn, excludeDexes) ==
    IF i > Len(tokens) THEN <<>>
    ELSE LET route == build2HopRoute(byPair, coinIn, tokens[i], coinOut,
                                     amountIn, excludeDexes)
         IN  (IF route.threw THEN <<>> ELSE route.value)
             \o TwoHopRoutes(byPair, tokens, i + 1, coinIn, coinOut, amountIn,
                             excludeDexes)

findMultiHopRoutes(ps, byPair, coinIn, coinOut, amountIn, maxHops, excludeDexes) ==
    LET intermediateTokens ==
            IntermediateTokens(getAllPools(ps), 1, coinIn, coinOut,
                               excludeDexes, <<>>)
    IN  TwoHopRoutes(byPair, intermediateTokens, 1, coinIn, coinOut, amountIn,
                     excludeDexes)

\* Lines 108-119 without the try/catch around a candidate: the first pool
\* that cannot be priced ends the loop.
RECURSIVE DirectRoutesUntilFailure(_, _, _, _, _, _)
DirectRoutesUntilFailure(directPools, i, coinIn, coinOut, amountIn, excludeDexes) ==
    IF i > Len(directPools) THEN <<>>
    ELSE IF Includes(excludeDexes, directPools[i].dexType)
    THEN DirectRoutesUntilFailure(directPools, i + 1, coinIn, coinOut,
                                  amountIn, excludeDexes)
    ELSE Bind(buildSingleHopRoute(directPools[i], coinIn, coinOut, amountIn),
              LAMBDA route :
                IF route = <<>> THEN <<>>
                ELSE route \o DirectRoutesUntilFailure(directPools, i + 1,
                                                       coinIn, coinOut,
                                                       amountIn, excludeDexes))

\* Lines 108-119: one candidate per direct pool that is not excluded.
RECURSIVE DirectRoutes(_, _, _, _, _, _)
DirectRoutes(directPools, i, coinIn, coinOut, amountIn, excludeDexes) ==
    IF i > Len(directPools) THEN <<>>
    ELSE (IF Includes(excludeDexes, directPools[i].dexType) THEN <<>>
          ELSE buildSingleHopRoute(directPools[i], coinIn, coinOut, amountIn))
         \o DirectRoutes(directPools, i + 1, coinIn, coinOut, amountIn,
                         excludeDexes)

findAllRoutesAnyHops(ps, byPair, coinIn, coinOut, amountIn, maxHops, excludeDexes) ==
    DirectRoutes(getPoolsForPair(byPair, coinIn, coinOut), 1, coinIn, coinOut,
                 amountIn, excludeDexes)
    \o findMultiHopRoutes(ps, byPair, coinIn, coinOut, amountIn, maxHops,
                          excludeDexes)

findAllRoutes(ps, byPair, coinIn, coinOut, amountIn, maxHops, excludeDexes) ==
    DirectRoutes(getPoolsForPair(byPair, coinIn, coinOut), 1, coinIn, coinOut,
                 amountIn, excludeDexes)
    \o (IF maxHops > 1
        THEN findMultiHopRoutes(ps, byPair, coinIn, coinOut, amountIn, maxHops,
                                excludeDexes)
        ELSE <<>>)

-----------------------------------------------------------------------------
(* Route selection *)

EPSILON == <<1, 1000>>       \* 0.001

RouterCompareGte(a, b) ==
    LET amountDiff == RatSub(b.amountOut, a.amountOut)
    IN  IF RatGte(RatAbs(amountDiff), EPSILON)
        THEN (IF RatGt(amountDiff, Dec(0)) THEN 1 ELSE -1)
        ELSE a.priceImpact - b.priceImpact

\* Lines 75-81: the comparator handed to Array.prototype.sort.
RouterCompare(a, b) ==
    LET amountDiff == RatSub(b.amountOut, a.amountOut)
    IN  IF RatGt(RatAbs(amountDiff), EPSILON)
        THEN (IF RatGt(amountDiff, Dec(0)) THEN 1 ELSE -1)
        ELSE a.priceImpact - b.priceImpact

\* sdk/src/math.ts lines 183-192: the comparator of MathUtils.findBestRoute.
MathCompare(prioritizeAmount, a, b) ==
    LET amountDiff == RatSub(b.amountOut, a.amountOut)
    IN  IF prioritizeAmount /\ RatGt(RatAbs(amountDiff), EPSILON)
        THEN (IF RatGt(amountDiff, Dec(0)) THEN 1 ELSE -1)
        ELSE a.priceImpact - b.priceImpact

\* The comparators in use: "router", "math" and "mathByImpact".
Compare(which, a, b) ==
    IF which = "router" THEN RouterCompare(a, b)
    ELSE MathCompare(which = "math", a, b)

\* Array.prototype.sort of V8 for arrays shorter than 64 elements: the first
\* run is found (and reversed if descending), the remaining elements are
\* inserted by binary insertion.
RECURSIVE RunEnd(_, _, _, _)
RunEnd(which, a, i, isDescending) ==
    IF i > Len(a) THEN Len(a)
    ELSE LET order == Compare(which, a[i], a[i - 1])
         IN  IF isDescending
             THEN (IF order >= 0 THEN i - 1
                   ELSE RunEnd(which, a, i + 1, isDescending))
             ELSE (IF order < 0 THEN i - 1
                   ELSE RunEnd(which, a, i + 1, isDescending))

Reverse(a) == [i \in 1..Len(a) |-> a[Len(a) + 1 - i]]

RECURSIVE BinarySearch(_, _, _, _, _)
BinarySearch(which, a, pivot, left, right) ==
    IF left >= right THEN left
    ELSE LET mid == left + ((right - left) \div 2)
         IN  IF Compare(which, pivot, a[mid]) < 0
             THEN BinarySearch(which, a, pivot, left, mid)
             ELSE BinarySearch(which, a, pivot, mid + 1, right)

RECURSIVE BinaryInsertionSort(_, _, _)
BinaryInsertionSort(which, a, start) ==
    IF start > Len(a) THEN a
    ELSE LET pivot == a[start]
             left == BinarySearch(which, a, pivot, 1, start)
         IN  BinaryInsertionSort(which,
                 SubSeq(a, 1, left - 1) \o <<pivot>>
                   \o SubSeq(a, left, start - 1) \o SubSeq(a, start + 1, Len(a)),
                 start + 1)

ArraySort(which, a) ==
    IF Len(a) < 2 THEN a
    ELSE LET isDescending == Compare(which, a[2], a[1]) < 0
             runLength == RunEnd(which, a, 3, isDescending)
             run == SubSeq(a, 1, runLength)
             made == (IF isDescending THEN Reverse(run) ELSE run)
                       \o SubSeq(a, runLength + 1, Len(a))
         IN  BinaryInsertionSort(which, made, runLength + 1)

\* Array.prototype.slice(begin, end) with 0 <= begin <= end.
Slice(a, begin, end) ==
    SubSeq(a, begin + 1, IF end < Len(a) THEN end ELSE Len(a))

\* Lines 69-91: null for no candidate, else the first of the sorted routes
\* and sortedRoutes.slice(1, 5).
NoRoute == [route |-> <<>>, routes |-> <<>>]

Select(allRoutes) ==
    IF Len(allRoutes) = 0 THEN NoRoute
    ELSE LET sortedRoutes == ArraySort("router", allRoutes)
         IN  [route |-> <<sortedRoutes[1]>>, routes |-> Slice(sortedRoutes, 1, 5)]

\* findBestRoute: route is <<best>> and routes the alternatives, or route is
\* <<>> for null.
findBestRoute(ps, byPair, request) ==
    Select(findAllRoutes(ps, byPair, request.coinIn, request.coinOut,
                         request.amountIn, request.maxHops,
                         request.excludeDexes))

\* sdk/src/math.ts lines 175-195: the result is <<best>>, or <<>> for null.
MathFindBestRoute(routes, prioritizeAmount) ==
    IF Len(routes) = 0 THEN <<>>
    ELSE IF Len(routes) = 1 THEN <<routes[1]>>
    ELSE <<ArraySort(IF prioritizeAmount THEN "math" ELSE "mathByImpact",
                     routes)[1]>>

-----------------------------------------------------------------------------
(* The refresh cycle *)

\* One activation of refreshAllPools per caller: startServer's initialize(),
\* the cron callback, and the POST /pools/refresh handler.
Callers == {"init", "cron", "manual"}

Providers == {"cetus", "pancake", "liquidswap"}

\* An activation of refreshAllPools: where it is suspended and its locals.
\* Two fields record the order of the activations, which the program does
\* not store: older, the activations that were in flight when this one was
\* entered and still are, and overtaken, whether the maps now hold what an
\* activation entered after this one has stored.
Idle == [pc |-> "idle", cetusPools |-> <<>>, pancakePools |-> <<>>,
         answers |-> [p \in Providers |-> Pending],
         older |-> {}, overtaken |-> FALSE]

Running == {d \in Callers : refresh[d].pc # "idle"}

\* The activation c ends without touching the maps.
Leave(c) ==
    [d \in Callers |->
        IF d = c THEN Idle ELSE [refresh[d] EXCEPT !.older = @ \ {c}]]

\* The activation c ends after lines 78-90 have replaced the maps.
LeaveStored(c) ==
    [d \in Callers |->
        IF d = c THEN Idle
        ELSE [refresh[d] EXCEPT !.older = @ \ {c},
                                !.overtaken = (d \in refresh[c].older)]]

NoAnswer == [op |-> None, args |-> <<>>, result |-> <<>>]

NotPublished == [answers |-> [p \in Providers |-> Pending],
                 completed |-> FALSE, allPools |-> <<>>]

\* Lines 64-70: entry of refreshAllPools up to the first await.
Enter(c) ==
    /\ refresh[c].pc = "idle"
    /\ refresh' = [refresh EXCEPT ![c].pc = "awaitCetus",
                                  ![c].older = Running]
    /\ seen' = NoAnswer
    /\ UNCHANGED <<pools, poolsByPair, lastUpdateTime, now, published>>

\* Lines 96-99: an exception inside the try block is logged and rethrown; the
\* activation ends without reaching line 78.
Thrown(c, answers) ==
    /\ refresh' = Leave(c)
    /\ published' = [answers |-> answers, completed |-> FALSE,
                     allPools |-> published.allPools]
    /\ phase' = IF c = "init" THEN "exited" ELSE phase
    /\ UNCHANGED <<pools, poolsByPair, lastUpdateTime>>

\* startServer lines 358-361: poolService.initialize() calls refreshAllPools.
Initialize ==
    /\ phase = "constructed"
    /\ phase' = "initializing"
    /\ Enter("init")
    /\ UNCHANGED <<quote, selIn, selOut, call, ret,
                   chain>>

\* startScheduler lines 254-260: the cron callback, every 30 seconds.
CronTick ==
    /\ phase = "listening"
    /\ Enter("cron")
    /\ UNCHANGED <<phase, quote, selIn, selOut, call, ret,
                   chain>>

\* routes/pools.ts lines 162-167: POST /refresh.
ManualRefresh ==
    /\ phase = "listening"
    /\ Enter("manual")
    /\ UNCHANGED <<phase, quote, selIn, selOut, call, ret,
                   chain>>

\* Line 70 resumes with the Cetus pools, line 71 awaits PancakeSwap.
ResumeCetus(c) ==
    /\ refresh[c].pc = "awaitCetus"
    /\ \E answer \in CetusAnswers :
          LET fetched == fetchPools(answer)
              cetusPools == fetched.value
              answers == [refresh[c].answers EXCEPT !["cetus"] = answer]
          IN  IF fetched.threw
              THEN Thrown(c, answers)
              ELSE /\ refresh' = [refresh EXCEPT ![c] =
                          [pc |-> "awaitPancake", cetusPools |-> cetusPools,
                           pancakePools |-> <<>>, answers |-> answers,
                           older |-> refresh[c].older,
                           overtaken |-> refresh[c].overtaken]]
                   /\ UNCHANGED <<phase, pools, poolsByPair, lastUpdateTime,
                                  published>>
    /\ seen' = NoAnswer
    /\ UNCHANGED <<now, quote, selIn, selOut, call, ret,
                   chain>>

\* Line 71 resumes with the PancakeSwap pools, line 72 awaits LiquidSwap.
ResumePancake(c) ==
    /\ refresh[c].pc = "awaitPancake"
    /\ \E answer \in PancakeAnswers :
          LET fetched == fetchPools(answer)
              pancakePools == fetched.value
              answers == [refresh[c].answers EXCEPT !["pancake"] = answer]
          IN  IF fetched.threw
              THEN Thrown(c, answers)
              ELSE /\ refresh' = [refresh EXCEPT ![c] =
                          [pc |-> "awaitLiquidSwap",
                           cetusPools |-> refresh[c].cetusPools,
                           pancakePools |-> pancakePools, answers |-> answers,
                           older |-> refresh[c].older,
                           overtaken |-> refresh[c].overtaken]]
                   /\ UNCHANGED <<phase, pools, poolsByPair, lastUpdateTime,
                                  published>>
    /\ seen' = NoAnswer
    /\ UNCHANGED <<now, quote, selIn, selOut, call, ret,
                   chain>>

\* Line 72 resumes with the LiquidSwap pools; lines 75-95 then run without an
\* await: combine, clear, rebuild both maps, stamp lastUpdateTime, return.
\* An exception in the loop leaves the try block at that point.
FinishRefresh(c, Answers) ==
    /\ refresh[c].pc = "awaitLiquidSwap"
    /\ \E answer \in Answers :
          LET fetched == fetchPools(answer)
              liquidSwapPools == fetched.value
              answers == [refresh[c].answers EXCEPT !["liquidswap"] = answer]
              allPools == CombineAll(refresh[c].cetusPools,
                                     refresh[c].pancakePools, liquidSwapPools)
          IN  IF fetched.threw
              THEN Thrown(c, answers)
              ELSE \E built \in {RefreshBuild([pools |-> pools,
                                               poolsByPair |-> poolsByPair],
                                              allPools)} :
                   /\ pools' = built.index.pools
                   /\ poolsByPair' = built.index.poolsByPair
                   /\ lastUpdateTime' = IF built.threw THEN lastUpdateTime ELSE now
                   /\ published' = [answers |-> answers,
                                    completed |-> ~built.threw,
                                    allPools |-> IF built.threw
                                                 THEN published.allPools
                                                 ELSE allPools]
                   /\ refresh' = LeaveStored(c)
                   /\ phase' = IF built.threw /\ c = "init" THEN "exited"
                               ELSE phase
    /\ seen' = NoAnswer
    /\ UNCHANGED <<now, quote, selIn, selOut, call, ret,
                   chain>>

ResumeLiquidSwap(c) == FinishRefresh(c, LiquidAnswers)

\* The same with a provider whose answer may hold a malformed record.
ResumeLiquidSwapFaulty(c) == FinishRefresh(c, FaultyLiquidAnswers)

\* startServer lines 361-367: initialize() has returned; the scheduler is
\* started and the server listens.
Listen ==
    /\ phase = "initializing"
    /\ refresh["init"].pc = "idle"
    /\ phase' = "listening"
    /\ seen' = NoAnswer
    /\ UNCHANGED <<refresh, pools, poolsByPair, lastUpdateTime, now, published,
                   quote, selIn, selOut, call, ret,
                   chain>>

\* Time passes.
Tick ==
    /\ now < MaxTime
    /\ now' = now + 1
    /\ seen' = NoAnswer
    /\ UNCHANGED <<phase, refresh, pools, poolsByPair, lastUpdateTime,
                   published, quote, selIn, selOut, call, ret,
                   chain>>

-----------------------------------------------------------------------------
(* Request handlers that read the cache *)

Answer(op, args, result) == [op |-> op, args |-> args, result |-> result]

CacheUnchanged ==
    UNCHANGED <<phase, refresh, pools, poolsByPair, lastUpdateTime, now,
                published, quote, selIn, selOut, call, ret,
                   chain>>

\* routes/pools.ts lines 13-17, GET /pools/stats.
ReadAllPools ==
    /\ phase = "listening"
    /\ seen' = Answer("getAllPools", <<>>, getAllPools(pools))
    /\ CacheUnchanged

\* routes/pools.ts lines 25-27: coin_a and coin_b are any two strings.
ReadPoolsForPair ==
    /\ phase = "listening"
    /\ \E q \in QueryPairs :
          seen' = Answer("getPoolsForPair", q,
                         getPoolsForPair(poolsByPair, q[1], q[2]))
    /\ CacheUnchanged

PoolAddresses ==
    {"pool_apt_usdc", "pool_usdc_apt", "pool_unknown"}

\* routes/pools.ts lines 70-73, GET /pools/:poolAddress.
ReadPool ==
    /\ phase = "listening"
    /\ \E poolAddress \in PoolAddresses :
          seen' = Answer("getPool", <<poolAddress>>, getPool(pools, poolAddress))
    /\ CacheUnchanged

\* routes/health.ts lines 11-17, GET /health.
ReadHealth ==
    /\ phase = "listening"
    /\ seen' = Answer("getHealthStatus", <<>>,
                      getHealthStatus(pools, lastUpdateTime, now))
    /\ CacheUnchanged

-----------------------------------------------------------------------------
(* The service: startup, refreshes and cache reads *)

NoRequest == [coinIn |-> <<>>, coinOut |-> <<>>, amountIn |-> <<0, 1>>,
              maxHops |-> 0, excludeDexes |-> {}]

NoQuote == [request |-> NoRequest, status |-> 0, error |-> None,
            searched |-> FALSE, route |-> <<>>, routes |-> <<>>]

NoSelection == [by |-> None, route |-> <<>>, routes |-> <<>>]

NoCall == [fn |-> None]

NoReturn == [threw |-> FALSE, value |-> <<>>]

\* The accounts that sign transactions: the address the package is published
\* at, and a user.
AGGREGATOR == "@aggregator"
Accounts == {AGGREGATOR, "@0x789"}

\* Global storage holds at most one AggregatorConfig per account.
NoConfig ==
    [exists |-> FALSE, admin |-> None, fee_rate |-> 0, fee_collector |-> None,
     paused |-> FALSE]

AggregatorConfig(admin, fee_rate, fee_collector, paused) ==
    [exists |-> TRUE, admin |-> admin, fee_rate |-> fee_rate,
     fee_collector |-> fee_collector, paused |-> paused]

\* Nothing published on chain: no account holds an AggregatorConfig.
\* pauseAsked is history: the argument of the last set_pause_status that the
\* recorded admin signed.
NoChain ==
    [config |-> [a \in Accounts |-> NoConfig], events |-> 0,
     pauseAsked |-> FALSE]

Init ==
    /\ phase = "constructed"
    /\ refresh = [c \in Callers |-> Idle]
    /\ pools = <<>>
    /\ poolsByPair = EmptyMap
    /\ lastUpdateTime = 0
    /\ now = 1
    /\ published = NotPublished
    /\ seen = NoAnswer
    /\ quote = NoQuote
    /\ selIn = <<>>
    /\ selOut = NoSelection
    /\ call = NoCall
    /\ ret = NoReturn
    /\ chain = NoChain

Next ==
    \/ Initialize
    \/ Listen
    \/ CronTick
    \/ ManualRefresh
    \/ \E c \in Callers : ResumeCetus(c)
    \/ \E c \in Callers : ResumePancake(c)
    \/ \E c \in Callers : ResumeLiquidSwap(c)
    \/ Tick
    \/ ReadAllPools
    \/ ReadPoolsForPair
    \/ ReadPool
    \/ ReadHealth

Spec == Init /\ [][Next]_vars

\* The service with a provider that may report a malformed record.
NextFault ==
    \/ Initialize
    \/ Listen
    \/ CronTick
    \/ ManualRefresh
    \/ \E c \in Callers : ResumeCetus(c)
    \/ \E c \in Callers : ResumePancake(c)
    \/ \E c \in Callers : ResumeLiquidSwapFaulty(c)
    \/ Tick
    \/ ReadAllPools

SpecFault == Init /\ [][NextFault]_vars

\* The service with a provider that may report an address a second time.
ResumeLiquidSwapDuplicate(c) == FinishRefresh(c, DuplicateLiquidAnswers)

NextDuplicate ==
    \/ Initialize
    \/ Listen
    \/ CronTick
    \/ ManualRefresh
    \/ \E c \in Callers : ResumeCetus(c)
    \/ \E c \in Callers : ResumePancake(c)
    \/ \E c \in Callers : ResumeLiquidSwapDuplicate(c)
    \/ Tick
    \/ ReadAllPools

SpecDuplicate == Init /\ [][NextDuplicate]_vars

-----------------------------------------------------------------------------
(* Quotes: POST /v1/router/quote on a published snapshot *)

\* amount_in is a string of an integer; "-1" has a sign, "0" and "4" do not.
AmountsIn == {-1, 0, 4}
ExcludeLists == {{}, {CETUS}, {PANCAKESWAP}}
MAX_HOPS == 3

Requests ==
    [coinIn : Coins, coinOut : Coins, amountIn : {Dec(a) : a \in AmountsIn},
     maxHops : 0..(MAX_HOPS + 1), excludeDexes : ExcludeLists]

\* routes/router.ts lines 11-18: amount_in matches /^\d+$/ and max_hops is
\* between 1 and 3.  The coins of Requests are well-formed coin types.
quoteSchema(request) ==
    /\ request.amountIn[1] >= 0
    /\ request.amountIn[2] = 1
    /\ request.maxHops >= 1
    /\ request.maxHops <= MAX_HOPS

\* routes/router.ts lines 42-44.
SameCoinsAccepted(request) == FALSE

SameCoins(request) == request.coinIn = request.coinOut

\* routes/router.ts lines 57-63 and 103: null is answered 404, a result 200.
QuoteStatusGeneric(result) == IF result.route = <<>> THEN 500 ELSE 200

QuoteStatus(result) == IF result.route = <<>> THEN 404 ELSE 200

\* routes/router.ts lines 27-30, 42-44 and 104-107: the handler throws a
\* ValidationError and its catch block throws it again.  The handler is an
\* async function, so the throw rejects the promise it returned; express 4
\* (package.json line 26) does not look at that promise, errorHandler is not
\* called and no response is written: status stays 0.
Rejected(request) ==
    [request |-> request, status |-> 0, error |-> "ValidationError",
     searched |-> FALSE, route |-> <<>>, routes |-> <<>>]

\* poolService.ts lines 390-394: the rejection that nothing handles reaches
\* process.on('unhandledRejection'), which calls process.exit(1).
unhandledRejection(answer, running) ==
    IF answer.error # None THEN "exited" ELSE running

\* routes/router.ts lines 24-111.  One request is followed from a snapshot to
\* its response; searched says whether findBestRoute was called.
HandleQuote ==
    /\ phase = "listening"
    /\ quote = NoQuote
    /\ \E request \in Requests :
          IF ~quoteSchema(request) THEN quote' = Rejected(request)
          ELSE IF SameCoins(request) THEN quote' = Rejected(request)
          ELSE \E result \in {findBestRoute(pools, poolsByPair, request)} :
                  quote' = [request |-> request,
                            status |-> QuoteStatus(result),
                            error |-> None,
                            searched |-> TRUE,
                            route |-> result.route, routes |-> result.routes]
    /\ phase' = unhandledRejection(quote', phase)
    /\ UNCHANGED <<refresh, pools, poolsByPair, lastUpdateTime, now,
                   published, seen, selIn, selOut, call, ret, chain>>

\* The service is listening and its cache holds what a completed refresh
\* published.
InitQuote ==
    /\ phase = "listening"
    /\ refresh = [c \in Callers |-> Idle]
    /\ \E cetusPools \in CetusLists, pancakePools \in PancakeLists,
          liquidSwapPools \in LiquidLists :
          \E allPools \in {CombineAll(cetusPools, pancakePools, liquidSwapPools)} :
          \E index \in {BuildIndex([pools |-> <<>>, poolsByPair |-> EmptyMap],
                                  allPools)} :
              /\ pools = index.pools
              /\ poolsByPair = index.poolsByPair
              /\ published =
                    [answers |-> [p \in Providers |->
                         Returned(IF p = "cetus" THEN cetusPools
                                  ELSE IF p = "pancake" THEN pancakePools
                                  ELSE liquidSwapPools)],
                     completed |-> TRUE, allPools |-> allPools]
    /\ lastUpdateTime = 1
    /\ now = 1
    /\ seen = NoAnswer
    /\ quote = NoQuote
    /\ selIn = <<>>
    /\ selOut = NoSelection
    /\ call = NoCall
    /\ ret = NoReturn
    /\ chain = NoChain

NextQuote == HandleQuote

SpecQuote == InitQuote /\ [][NextQuote]_vars

-----------------------------------------------------------------------------
(* Quotes on a snapshot in which one pool has a depleted reserve *)

DepletedReserves == {0, -8}

\* The pool records as fetched, the i-th one with reserveA or reserveB
\* depleted.
Deplete(allPools, i, side, reserve) ==
    IF side = "A" THEN [allPools EXCEPT ![i].reserveA = reserve]
    ELSE [allPools EXCEPT ![i].reserveB = reserve]

InitDepleted ==
    /\ phase = "listening"
    /\ refresh = [c \in Callers |-> Idle]
    /\ \E cetusPools \in CetusLists, pancakePools \in PancakeLists,
          liquidSwapPools \in LiquidLists :
          \E fetched \in {CombineAll(cetusPools, pancakePools, liquidSwapPools)} :
          \E i \in 1..Len(fetched), side \in {"A", "B"},
             reserve \in DepletedReserves :
          \E allPools \in {Deplete(fetched, i, side, reserve)} :
          \E index \in {BuildIndex([pools |-> <<>>, poolsByPair |-> EmptyMap],
                                  allPools)} :
              /\ pools = index.pools
              /\ poolsByPair = index.poolsByPair
              /\ published =
                    [answers |-> [p \in Providers |->
                         Returned(IF p = "cetus"
                                  THEN SubSeq(allPools, 1, Len(cetusPools))
                                  ELSE IF p = "pancake"
                                  THEN SubSeq(allPools, Len(cetusPools) + 1,
                                              Len(cetusPools) + Len(pancakePools))
                                  ELSE SubSeq(allPools,
                                              Len(cetusPools) + Len(pancakePools) + 1,
                                              Len(allPools)))],
                     completed |-> TRUE, allPools |-> allPools]
    /\ lastUpdateTime = 1
    /\ now = 1
    /\ seen = NoAnswer
    /\ quote = NoQuote
    /\ selIn = <<>>
    /\ selOut = NoSelection
    /\ call = NoCall
    /\ ret = NoReturn
    /\ chain = NoChain

SpecDepleted == InitDepleted /\ [][NextQuote]_vars

-----------------------------------------------------------------------------
(* Route selection on its own *)

\* amountOut of a candidate in units of half an EPSILON.
Units(u) == Rat(u, 2000)

Candidate(id, u, impact) ==
    [id |-> id, amountOut |-> Units(u), priceImpact |-> impact]

\* Up to three candidates take every amount and impact; longer lists take
\* the two extreme amounts.
CandidateLists ==
    UNION {
      { [i \in 1..n |-> Candidate(i, f[i][1], f[i][2])] :
          f \in [1..n -> (IF n <= 3 THEN 0..MaxAmountUnits
                          ELSE {0, MaxAmountUnits}) \X (0..1)] } :
      n \in 1..MaxRoutes }

InitSelect ==
    /\ phase = "listening"
    /\ refresh = [c \in Callers |-> Idle]
    /\ pools = <<>>
    /\ poolsByPair = EmptyMap
    /\ lastUpdateTime = 0
    /\ now = 1
    /\ published = NotPublished
    /\ seen = NoAnswer
    /\ quote = NoQuote
    /\ selIn \in CandidateLists
    /\ selOut = NoSelection
    /\ call = NoCall
    /\ ret = NoReturn
    /\ chain = NoChain

SelectionUnchanged ==
    UNCHANGED <<phase, refresh, pools, poolsByPair, lastUpdateTime, now,
                published, seen, quote, selIn, call, ret,
                   chain>>

\* RouterService.findBestRoute lines 69-91 on the candidates selIn.
SelectRouter ==
    /\ selOut.by = None
    /\ LET result == Select(selIn)
       IN  selOut' = [by |-> "RouterService", route |-> result.route,
                      routes |-> result.routes]
    /\ SelectionUnchanged

\* MathUtils.findBestRoute on the candidates selIn.
SelectMath ==
    /\ selOut.by = None
    /\ \E prioritizeAmount \in BOOLEAN :
          selOut' = [by |-> IF prioritizeAmount THEN "MathUtils"
                            ELSE "MathUtilsByImpact",
                     route |-> MathFindBestRoute(selIn, prioritizeAmount),
                     routes |-> <<>>]
    /\ SelectionUnchanged

NextSelect == SelectRouter \/ SelectMath

SpecSelect == InitSelect /\ [][NextSelect]_vars

-----------------------------------------------------------------------------
(* PoolService.getBestPoolForPair on its own *)

\* Pools of the pair APT/USDC as a provider may report them: either coin
\* first, a reserve may be empty.
PairPoolAddress(i) == <<"pool_1", "pool_2", "pool_3">>[i]

PairPools(i) ==
    { Pool(PairPoolAddress(i), c[1], c[2], CETUS, r[1], r[2], fee) :
        c \in {<<APT, USDC>>, <<USDC, APT>>},
        r \in {<<0, 8>>, <<8, 8>>, <<16, 8>>, <<8, 16>>},
        fee \in {0, 5000} }

RECURSIVE PairPoolLists(_)
PairPoolLists(n) ==
    IF n = 0 THEN {<<>>}
    ELSE PairPoolLists(n - 1)
         \cup { Append(l, p) : l \in {k \in PairPoolLists(n - 1) : Len(k) = n - 1},
                               p \in PairPools(n) }

\* The cache holds the pools of the pair and one pool of another pair.
InitBest ==
    /\ phase = "listening"
    /\ refresh = [c \in Callers |-> Idle]
    /\ \E pairPools \in PairPoolLists(MaxPairPools) :
       \E index \in {BuildIndex([pools |-> <<>>, poolsByPair |-> EmptyMap],
                                pairPools \o <<PoolUsdcUsdt>>)} :
           /\ pools = index.pools
           /\ poolsByPair = index.poolsByPair
    /\ lastUpdateTime = 1
    /\ now = 1
    /\ published = NotPublished
    /\ seen = NoAnswer
    /\ quote = NoQuote
    /\ selIn = <<>>
    /\ selOut = NoSelection
    /\ call = NoCall
    /\ ret = NoReturn
    /\ chain = NoChain

CallBestPool ==
    /\ call = NoCall
    /\ \E coinA \in {APT, USDC}, coinB \in {APT, USDC}, amountIn \in {0, 4} :
          /\ coinA # coinB
          /\ call' = [fn |-> "getBestPoolForPair", coinA |-> coinA,
                      coinB |-> coinB, amountIn |-> Dec(amountIn)]
          /\ ret' = Value(getBestPoolForPair(poolsByPair, coinA, coinB,
                                             Dec(amountIn)))
    /\ UNCHANGED <<phase, refresh, pools, poolsByPair, lastUpdateTime, now,
                   published, seen, quote, selIn, selOut, chain>>

NextBest == CallBestPool

SpecBest == InitBest /\ [][NextBest]_vars

-----------------------------------------------------------------------------
(* aggregator::math (sources/math.move) on u64 *)

\* The amounts below keep every product under 2^31, far from MAX_U64, so the
\* overflow assertion of safe_mul (math.move line 35) and the checked u64
\* multiplication never abort here; every other abort is modelled.
ABORT == -1

calculate_fee(amount, fee_rate_bp) ==
    IF fee_rate_bp > BASIS_POINTS THEN ABORT
    ELSE (amount * fee_rate_bp) \div BASIS_POINTS

amount_after_fee(amount, fee_rate_bp) ==
    Bind(calculate_fee(amount, fee_rate_bp), LAMBDA fee :
        IF fee = ABORT \/ fee > amount THEN ABORT ELSE amount - fee)

safe_mul(a, b) ==
    IF a = ABORT \/ b = ABORT THEN ABORT
    ELSE IF a = 0 \/ b = 0 THEN 0
    ELSE a * b

safe_div(a, b) ==
    IF a = ABORT \/ b = ABORT \/ b = 0 THEN ABORT ELSE a \div b

get_amount_out(amount_in, reserve_in, reserve_out, fee_rate_bp) ==
    IF ~(amount_in > 0) THEN ABORT
    ELSE IF ~(reserve_in > 0 /\ reserve_out > 0) THEN ABORT
    ELSE Bind(amount_after_fee(amount_in, fee_rate_bp),
              LAMBDA amount_in_with_fee :
                IF amount_in_with_fee = ABORT THEN ABORT
                ELSE safe_div(safe_mul(amount_in_with_fee, reserve_out),
                              reserve_in + amount_in_with_fee))

\* get_amount_in without the "+ 1 for rounding" of line 76.
get_amount_in_floor(amount_out, reserve_in, reserve_out, fee_rate_bp) ==
    IF ~(amount_out > 0) THEN ABORT
    ELSE IF ~(reserve_in > 0 /\ reserve_out > 0) THEN ABORT
    ELSE IF ~(amount_out < reserve_out) THEN ABORT
    ELSE IF fee_rate_bp > BASIS_POINTS THEN ABORT
    ELSE safe_div(safe_mul(safe_div(safe_mul(reserve_in, amount_out),
                                    reserve_out - amount_out),
                           BASIS_POINTS),
                  BASIS_POINTS - fee_rate_bp)

get_amount_in(amount_out, reserve_in, reserve_out, fee_rate_bp) ==
    IF ~(amount_out > 0) THEN ABORT
    ELSE IF ~(reserve_in > 0 /\ reserve_out > 0) THEN ABORT
    ELSE IF ~(amount_out < reserve_out) THEN ABORT
    ELSE IF fee_rate_bp > BASIS_POINTS THEN ABORT
    ELSE safe_div(safe_mul(safe_div(safe_mul(reserve_in, amount_out),
                                    reserve_out - amount_out) + 1,
                           BASIS_POINTS),
                  BASIS_POINTS - fee_rate_bp)

spot_price(reserve_in, reserve_out) ==
    safe_div(safe_mul(reserve_out, BASIS_POINTS), reserve_in)

execution_price(amount_in, amount_out) ==
    safe_div(safe_mul(amount_out, BASIS_POINTS), amount_in)

calculate_price_impact(amount_in, amount_out, reserve_in, reserve_out) ==
    IF reserve_in = 0 \/ reserve_out = 0 THEN BASIS_POINTS
    ELSE Bind2(spot_price(reserve_in, reserve_out),
               execution_price(amount_in, amount_out),
               LAMBDA spot, execution :
                 IF spot = ABORT \/ execution = ABORT THEN ABORT
                 ELSE IF execution >= spot THEN 0
                 ELSE safe_div(safe_mul(spot - execution, BASIS_POINTS), spot))

-----------------------------------------------------------------------------
(* The pricing functions on their own *)

\* 18446744073709551615, the largest raw amount of a coin on chain (u64).
U64_MAX == [s |-> 1, c |-> <<1615, 955, 737, 6744, 1844>>, e |-> 0]

MathAmounts ==
    {D(0), D(1), D(3), D(100), DE(6, 12), DecMinus(U64_MAX, D(1)), U64_MAX,
     DE(1, 21)}

\* <<reserveIn, reserveOut>>
MathReserves == {<<D(1), D(1)>>, <<D(1000), D(2000)>>, <<DE(1, 6), DE(1, 6)>>}

MathFees == {0, 30}

MathSlippages == {0, 50, 10000, 10001, 20000}

InitMath ==
    /\ phase = "listening"
    /\ refresh = [c \in Callers |-> Idle]
    /\ pools = <<>>
    /\ poolsByPair = EmptyMap
    /\ lastUpdateTime = 0
    /\ now = 1
    /\ published = NotPublished
    /\ seen = NoAnswer
    /\ quote = NoQuote
    /\ selIn = <<>>
    /\ selOut = NoSelection
    /\ call = NoCall
    /\ ret = NoReturn
    /\ chain = NoChain

MathUnchanged ==
    UNCHANGED <<phase, refresh, pools, poolsByPair, lastUpdateTime, now,
                published, seen, quote, selIn, selOut, chain>>

PricingCall(fn, amountIn, reserves, feeRateBp) ==
    [fn |-> fn, amountIn |-> amountIn, reserveIn |-> reserves[1],
     reserveOut |-> reserves[2], feeRateBp |-> feeRateBp]

CallGetAmountOut ==
    /\ call = NoCall
    /\ \E amountIn \in MathAmounts, reserves \in MathReserves,
          feeRateBp \in MathFees :
          /\ call' = PricingCall("getAmountOut", amountIn, reserves, feeRateBp)
          /\ ret' = getAmountOut(amountIn, reserves[1], reserves[2], feeRateBp)
    /\ MathUnchanged

CallCalculateOutput ==
    /\ call = NoCall
    /\ \E amountIn \in MathAmounts, reserves \in MathReserves,
          feeRate \in MathFees :
          /\ call' = PricingCall("calculateOutput", amountIn, reserves, feeRate)
          /\ ret' = calculateOutputDecimal(amountIn, reserves[1], reserves[2],
                                           feeRate)
    /\ MathUnchanged

\* getAmountIn on the output that getAmountOut quoted for amountIn.
CallGetAmountIn ==
    /\ call = NoCall
    /\ \E amountIn \in MathAmounts, reserves \in MathReserves,
          feeRateBp \in MathFees :
       \E amountOut \in {getAmountOut(amountIn, reserves[1], reserves[2],
                                       feeRateBp)} :
          /\ ~amountOut.threw
          /\ call' = PricingCall("getAmountIn", amountIn, reserves, feeRateBp)
          /\ ret' = getAmountIn(amountOut.value[1], reserves[1], reserves[2],
                                feeRateBp)
    /\ MathUnchanged

CallCalculateMinOutput ==
    /\ call = NoCall
    /\ \E amount \in MathAmounts, slippageToleranceBp \in MathSlippages :
          /\ call' = [fn |-> "calculateMinOutput", amount |-> amount,
                      slippageToleranceBp |-> slippageToleranceBp]
          /\ ret' = calculateMinOutput(amount, slippageToleranceBp)
    /\ MathUnchanged

NextMath ==
    \/ CallGetAmountOut
    \/ CallCalculateOutput
    \/ CallGetAmountIn
    \/ CallCalculateMinOutput

SpecMath == InitMath /\ [][NextMath]_vars

-----------------------------------------------------------------------------
(* The Move math functions on their own *)

MoveAmounts == (0..MaxAmountIn) \cup {100, 1000, 1004, 1005, 1500}

\* <<reserve_in, reserve_out>>
MoveReserves ==
    {<<1000, 1000>>, <<1000, 2000>>, <<1000, 2>>, <<10, 100>>, <<20000, 1>>}

MoveFees == {0, 30, 5000, 9000, 9999, 10000}

MoveCall(fn, amount_in, amount_out, reserves, fee_rate_bp) ==
    [fn |-> fn, amount_in |-> amount_in, amount_out |-> amount_out,
     reserve_in |-> reserves[1], reserve_out |-> reserves[2],
     fee_rate_bp |-> fee_rate_bp]

Call_get_amount_out ==
    /\ call = NoCall
    /\ \E amount_in \in MoveAmounts, reserves \in MoveReserves,
          fee_rate_bp \in MoveFees :
          /\ call' = MoveCall("get_amount_out", amount_in, 0, reserves,
                              fee_rate_bp)
          /\ ret' = get_amount_out(amount_in, reserves[1], reserves[2],
                                   fee_rate_bp)
    /\ MathUnchanged

\* get_amount_in on the output that get_amount_out gave for amount_in.
Call_get_amount_in ==
    /\ call = NoCall
    /\ \E amount_in \in MoveAmounts, reserves \in MoveReserves,
          fee_rate_bp \in MoveFees :
       \E amount_out \in {get_amount_out(amount_in, reserves[1], reserves[2],
                                          fee_rate_bp)} :
          /\ amount_out # ABORT
          /\ call' = MoveCall("get_amount_in", amount_in, amount_out, reserves,
                              fee_rate_bp)
          /\ ret' = get_amount_in(amount_out, reserves[1], reserves[2],
                                  fee_rate_bp)
    /\ MathUnchanged

\* calculate_price_impact of a trade and the output get_amount_out gave it.
Call_calculate_price_impact ==
    /\ call = NoCall
    /\ \E amount_in \in MoveAmounts, reserves \in MoveReserves,
          fee_rate_bp \in MoveFees :
       \E amount_out \in {get_amount_out(amount_in, reserves[1], reserves[2],
                                          fee_rate_bp)} :
          /\ amount_out # ABORT
          /\ call' = MoveCall("calculate_price_impact", amount_in, amount_out,
                              reserves, fee_rate_bp)
          /\ ret' = calculate_price_impact(amount_in, amount_out, reserves[1],
                                           reserves[2])
    /\ MathUnchanged

NextMove ==
    \/ Call_get_amount_out
    \/ Call_get_amount_in
    \/ Call_calculate_price_impact

SpecMove == InitMath /\ [][NextMove]_vars

-----------------------------------------------------------------------------
(* aggregator::router (the Move router) *)

\* A transaction that aborts leaves storage as it was.
Committed(st) == [abort |-> None, chain |-> st]
Aborted(code, st) == [abort |-> code, chain |-> st]

DEX_CETUS == 1
DEX_PANCAKE == 2

\* Lines 59-68.  move_to aborts when the signer already holds the resource.
initialize(st, admin, fee_rate, fee_collector) ==
    IF st.config[admin].exists THEN Aborted("already_exists", st)
    ELSE Committed([st EXCEPT !.config[admin] =
                        AggregatorConfig(admin, fee_rate, fee_collector, FALSE)])

\* set_fee_rate without the assertion of line 151.
set_fee_rate_unchecked(st, admin, new_fee_rate) ==
    IF ~st.config[AGGREGATOR].exists THEN Aborted("not_found", st)
    ELSE Committed([st EXCEPT !.config[AGGREGATOR].fee_rate = new_fee_rate])

\* Lines 149-153.  borrow_global_mut aborts when @aggregator holds no config.
set_fee_rate(st, admin, new_fee_rate) ==
    IF ~st.config[AGGREGATOR].exists THEN Aborted("not_found", st)
    ELSE IF admin # st.config[AGGREGATOR].admin
    THEN Aborted("permission_denied", st)
    ELSE Committed([st EXCEPT !.config[AGGREGATOR].fee_rate = new_fee_rate])

\* Lines 155-159.
set_pause_status(st, admin, paused) ==
    IF ~st.config[AGGREGATOR].exists THEN Aborted("not_found", st)
    ELSE IF admin # st.config[AGGREGATOR].admin
    THEN Aborted("permission_denied", st)
    ELSE Committed([st EXCEPT !.config[AGGREGATOR].paused = paused])

\* Lines 161-165.
update_fee_collector(st, admin, new_collector) ==
    IF ~st.config[AGGREGATOR].exists THEN Aborted("not_found", st)
    ELSE IF admin # st.config[AGGREGATOR].admin
    THEN Aborted("permission_denied", st)
    ELSE Committed([st EXCEPT !.config[AGGREGATOR].fee_collector = new_collector])

\* Lines 139-146: the amount of the coin returned, or ABORT.
swap_via_cetus(amount_in, pool_address) == ABORT

\* swap_exact_input without the assertion of line 79.
swap_exact_input_unpaused(st, user, dex_id, amount_in, min_amount_out) ==
    IF ~st.config[AGGREGATOR].exists THEN Aborted("not_found", st)
    ELSE IF ~(amount_in > 0) THEN Aborted("invalid_argument:EZERO_AMOUNT", st)
    ELSE IF dex_id # DEX_CETUS
    THEN Aborted("invalid_argument:EUNSUPPORTED_DEX", st)
    ELSE Bind(swap_via_cetus(amount_in, "@0x111"), LAMBDA amount_out :
            IF amount_out = ABORT THEN Aborted("unavailable", st)
            ELSE IF ~(amount_out >= min_amount_out)
            THEN Aborted("invalid_argument:EINSUFFICIENT_OUTPUT_AMOUNT", st)
            ELSE Committed([st EXCEPT !.events = @ + 1]))

\* Lines 71-116.
swap_exact_input(st, user, dex_id, amount_in, min_amount_out) ==
    IF ~st.config[AGGREGATOR].exists THEN Aborted("not_found", st)
    ELSE IF st.config[AGGREGATOR].paused THEN Aborted("permission_denied", st)
    ELSE IF ~(amount_in > 0) THEN Aborted("invalid_argument:EZERO_AMOUNT", st)
    ELSE IF dex_id # DEX_CETUS
    THEN Aborted("invalid_argument:EUNSUPPORTED_DEX", st)
    ELSE Bind(swap_via_cetus(amount_in, "@0x111"), LAMBDA amount_out :
            IF amount_out = ABORT THEN Aborted("unavailable", st)
            ELSE IF ~(amount_out >= min_amount_out)
            THEN Aborted("invalid_argument:EINSUFFICIENT_OUTPUT_AMOUNT", st)
            ELSE Committed([st EXCEPT !.events = @ + 1]))

\* Lines 119-136; steps is the length of the path handed in.
swap_exact_input_multihop(st, user, steps, amount_in, min_amount_out) ==
    IF ~st.config[AGGREGATOR].exists THEN Aborted("not_found", st)
    ELSE IF st.config[AGGREGATOR].paused THEN Aborted("permission_denied", st)
    ELSE IF steps = 0 THEN Aborted("invalid_argument:EINVALID_PATH", st)
    ELSE IF ~(amount_in > 0) THEN Aborted("invalid_argument:EZERO_AMOUNT", st)
    ELSE Aborted("unavailable", st)

FeeRates == {30, 50, 10001}
Collectors == {"@0x123", "@0x456"}
CoinValues == {0, 5}

OffChainUnchanged ==
    UNCHANGED <<phase, refresh, pools, poolsByPair, lastUpdateTime, now,
                published, seen, quote, selIn, selOut>>

\* One transaction: its outcome is recorded and its storage committed.
Transact(fn, signer, arg, outcome) ==
    /\ call' = [fn |-> fn, signer |-> signer, arg |-> arg]
    /\ ret' = [threw |-> outcome.abort # None, value |-> <<outcome.abort>>]
    /\ chain' =
          IF /\ fn = "set_pause_status"
             /\ chain.config[AGGREGATOR].exists
             /\ signer = chain.config[AGGREGATOR].admin
          THEN [outcome.chain EXCEPT !.pauseAsked = arg[1]]
          ELSE outcome.chain
    /\ OffChainUnchanged

Call_initialize ==
    \E admin \in Accounts, fee_rate \in FeeRates, fee_collector \in Collectors :
        Transact("initialize", admin, <<fee_rate, fee_collector>>,
                 initialize(chain, admin, fee_rate, fee_collector))

Call_set_fee_rate ==
    \E admin \in Accounts, new_fee_rate \in FeeRates :
        Transact("set_fee_rate", admin, <<new_fee_rate>>,
                 set_fee_rate(chain, admin, new_fee_rate))

Call_set_pause_status ==
    \E admin \in Accounts, paused \in BOOLEAN :
        Transact("set_pause_status", admin, <<paused>>,
                 set_pause_status(chain, admin, paused))

Call_update_fee_collector ==
    \E admin \in Accounts, new_collector \in Collectors :
        Transact("update_fee_collector", admin, <<new_collector>>,
                 update_fee_collector(chain, admin, new_collector))

Call_swap_exact_input ==
    \E user \in Accounts, dex_id \in {DEX_CETUS, DEX_PANCAKE},
       amount_in \in CoinValues :
        Transact("swap_exact_input", user, <<dex_id, amount_in>>,
                 swap_exact_input(chain, user, dex_id, amount_in, 0))

Call_swap_exact_input_multihop ==
    \E user \in Accounts, steps \in 0..1, amount_in \in CoinValues :
        Transact("swap_exact_input_multihop", user, <<steps, amount_in>>,
                 swap_exact_input_multihop(chain, user, steps, amount_in, 0))

NextRouter ==
    \/ Call_initialize
    \/ Call_set_fee_rate
    \/ Call_set_pause_status
    \/ Call_update_fee_collector
    \/ Call_swap_exact_input
    \/ Call_swap_exact_input_multihop

SpecRouter == InitMath /\ [][NextRouter]_vars

-----------------------------------------------------------------------------
(* AptosRouter (sdk/src/router.ts): the SDK's local route search *)

\* A pool as GET /pools reports it (backend/src/routes/pools.ts lines 31-50).
ApiPool(pool) ==
    [pool_address |-> pool.poolAddress, coin_a |-> pool.coinA,
     coin_b |-> pool.coinB, dex_type |-> pool.dexType,
     reserve_a |-> pool.reserveA, reserve_b |-> pool.reserveB,
     fee_rate |-> pool.feeRate]

\* Lines 246-271: graph.get(coin) ?? [], the neighbours in insertion order.
RECURSIVE buildPoolGraphFrom(_, _, _)
buildPoolGraphFrom(apiPools, i, graph) ==
    IF i > Len(apiPools) THEN graph
    ELSE LET pool == apiPools[i]
             coinA == pool.coin_a
             coinB == pool.coin_b
             pushedA == [graph EXCEPT ![coinA] =
                            Append(@, [coinOut |-> coinB, pool |-> pool])]
         IN  buildPoolGraphFrom(apiPools, i + 1,
                 [pushedA EXCEPT ![coinB] =
                     Append(@, [coinOut |-> coinA, pool |-> pool])])

buildPoolGraph(apiPools) ==
    buildPoolGraphFrom(apiPools, 1, [c \in Coins |-> <<>>])

\* Lines 273-313.  visited is copied for each branch (new Set(visited)).
RECURSIVE AptosRouterFindAllRoutes(_, _, _, _, _, _)
RECURSIVE NeighborRoutes(_, _, _, _, _, _, _)
NeighborRoutes(neighbors, i, coinOut, graph, maxHops, currentPath, visited) ==
    IF i > Len(neighbors) THEN <<>>
    ELSE (IF neighbors[i].coinOut \notin visited
          THEN AptosRouterFindAllRoutes(neighbors[i].coinOut, coinOut, graph,
                                        maxHops,
                                        Append(currentPath, neighbors[i]),
                                        visited)
          ELSE <<>>)
         \o NeighborRoutes(neighbors, i + 1, coinOut, graph, maxHops,
                           currentPath, visited)

AptosRouterFindAllRoutes(coinIn, coinOut, graph, maxHops, currentPath, visited) ==
    IF Len(currentPath) >= maxHops THEN <<>>
    ELSE IF coinIn = coinOut /\ Len(currentPath) > 0 THEN <<currentPath>>
    ELSE IF coinIn \in visited THEN <<>>
    ELSE NeighborRoutes(graph[coinIn], 1, coinOut, graph, maxHops,
                        currentPath, visited \cup {coinIn})

\* sdk/src/math.ts lines 46-65 on exact rationals.
getAmountOutExact(amountIn, reserveIn, reserveOut, feeRateBp) ==
    IF RatLte(amountIn, Dec(0)) \/ RatLte(reserveIn, Dec(0))
       \/ RatLte(reserveOut, Dec(0))
    THEN Throw
    ELSE Bind(RatSub(amountIn, calculateFee(amountIn, feeRateBp)),
              LAMBDA amountInWithFee :
                Value(RatDiv(RatMul(amountInWithFee, reserveOut),
                             RatAdd(reserveIn, amountInWithFee))))

\* sdk/src/math.ts lines 103-133 on exact rationals.
calculatePriceImpactExact(amountIn, amountOut, reserveIn, reserveOut) ==
    IF RatLte(reserveIn, Dec(0)) \/ RatLte(reserveOut, Dec(0))
    THEN BASIS_POINTS
    ELSE Bind2(RatDiv(reserveOut, reserveIn), RatDiv(amountOut, amountIn),
               LAMBDA spotPrice, executionPrice :
                 IF RatGte(executionPrice, spotPrice) THEN 0
                 ELSE RatFloor(RatMul(RatDiv(RatSub(spotPrice, executionPrice),
                                             spotPrice),
                                      Dec(BASIS_POINTS))))

\* Lines 344-345 and 319-320: pool is step.pool, so the comparison is of
\* pool.coin_a.type with itself.
IsA2B(step) == step.pool.coin_a = step.pool.coin_a

\* Lines 339-376, the loop: the steps priced so far, or Throw.
RECURSIVE SwapSteps(_, _, _, _)
SwapSteps(route, i, currentAmount, steps) ==
    IF i > Len(route) THEN Value(steps)
    ELSE LET pool == route[i].pool
             isA2B == IsA2B(route[i])
             reserveIn == Dec(IF isA2B THEN pool.reserve_a ELSE pool.reserve_b)
             reserveOut == Dec(IF isA2B THEN pool.reserve_b ELSE pool.reserve_a)
         IN  Bind(getAmountOutExact(currentAmount, reserveIn, reserveOut,
                                    pool.fee_rate),
                  LAMBDA amountOut :
                    IF amountOut.threw THEN Throw
                    ELSE SwapSteps(route, i + 1, amountOut.value[1],
                           Append(steps,
                             [dexType |-> pool.dex_type,
                              coinIn |-> IF isA2B THEN pool.coin_a
                                         ELSE pool.coin_b,
                              coinOut |-> IF isA2B THEN pool.coin_b
                                          ELSE pool.coin_a,
                              poolAddress |-> pool.pool_address,
                              amountIn |-> currentAmount,
                              amountOut |-> amountOut.value[1],
                              feeRate |-> pool.fee_rate,
                              priceImpact |->
                                  calculatePriceImpactExact(
                                      currentAmount, amountOut.value[1],
                                      reserveIn, reserveOut)])))

RECURSIVE SumPriceImpact(_, _)
SumPriceImpact(steps, i) ==
    IF i > Len(steps) THEN 0
    ELSE steps[i].priceImpact + SumPriceImpact(steps, i + 1)

\* Lines 315-337 and 339-376 for one route: the element of
\* routesWithOutputs, or Throw.  calculateRouteOutput runs the same loop as
\* transformToSwapRoute and returns its last amount and the sum of impacts.
RouteWithOutput(route, amountIn) ==
    Bind(SwapSteps(route, 1, amountIn, <<>>), LAMBDA priced :
        IF priced.threw THEN Throw
        ELSE Bind(priced.value[1], LAMBDA steps :
                Value([route |-> [steps |-> steps, amountIn |-> amountIn,
                                  amountOut |-> steps[Len(steps)].amountOut,
                                  priceImpact |-> SumPriceImpact(steps, 1),
                                  fee |-> calculateFee(amountIn, 30),
                                  estimatedGas |-> 5000 * Len(steps)],
                       amountOut |-> steps[Len(steps)].amountOut,
                       priceImpact |-> SumPriceImpact(steps, 1)])))

RECURSIVE RoutesWithOutputs(_, _, _)
RoutesWithOutputs(routes, i, amountIn) ==
    IF i > Len(routes) THEN Value(<<>>)
    ELSE Bind2(RouteWithOutput(routes[i], amountIn),
               RoutesWithOutputs(routes, i + 1, amountIn),
               LAMBDA first, rest :
                 IF first.threw \/ rest.threw THEN Throw
                 ELSE Value(<<first.value[1]>> \o rest.value[1]))

DEFAULT_SLIPPAGE_TOLERANCE == 50

\* Lines 141-199, on the pools that getPools answered: <<result>>, or <<>>
\* for null.
findOptimalRouteLocal(apiPools, params) ==
    Bind(AptosRouterFindAllRoutes(params.coinIn, params.coinOut,
                                  buildPoolGraph(apiPools), params.maxHops,
                                  <<>>, {}),
         LAMBDA routes :
           IF Len(routes) = 0 THEN <<>>
           ELSE Bind(RoutesWithOutputs(routes, 1, params.amountIn),
                     LAMBDA routesWithOutputs :
                       IF routesWithOutputs.threw THEN <<>>
                       ELSE Bind(MathFindBestRoute(routesWithOutputs.value[1],
                                                   TRUE)[1],
                                 LAMBDA bestRoute :
                                   << [route |-> bestRoute.route,
                                       priceImpact |-> bestRoute.priceImpact,
                                       minimumAmountOut |->
                                           RatSub(bestRoute.amountOut,
                                                  RatMul(bestRoute.amountOut,
                                                         RatDiv(Dec(DEFAULT_SLIPPAGE_TOLERANCE),
                                                                Dec(BASIS_POINTS)))),
                                       fee |-> calculateFee(params.amountIn, 30),
                                       estimatedGas |-> 5000,
                                       routes |-> [k \in 1..Len(routesWithOutputs.value[1])
                                                     |-> routesWithOutputs.value[1][k].route]] >>)))

MAX_ROUTE_HOPS == 3

\* What GET /pools answers.
ApiPoolLists ==
    {[k \in 1..Len(list) |-> ApiPool(list[k])] :
        list \in {CombineAll(cetusPools, pancakePools, liquidSwapPools) :
                     cetusPools \in CetusLists, pancakePools \in PancakeLists,
                     liquidSwapPools \in LiquidLists}}

CallFindAllRoutes ==
    /\ call = NoCall
    /\ \E apiPools \in ApiPoolLists, coinIn \in Coins, coinOut \in Coins,
          maxHops \in 1..MAX_ROUTE_HOPS :
          /\ coinIn # coinOut
          /\ call' = [fn |-> "findAllRoutes", pools |-> apiPools,
                      coinIn |-> coinIn, coinOut |-> coinOut,
                      amountIn |-> Dec(0), maxHops |-> maxHops]
          /\ ret' = Value(AptosRouterFindAllRoutes(coinIn, coinOut,
                                                   buildPoolGraph(apiPools),
                                                   maxHops, <<>>, {}))
    /\ MathUnchanged

CallFindOptimalRouteLocal ==
    /\ call = NoCall
    /\ \E apiPools \in ApiPoolLists, coinIn \in Coins, coinOut \in Coins,
          maxHops \in 1..MAX_ROUTE_HOPS :
          /\ call' = [fn |-> "findOptimalRouteLocal", pools |-> apiPools,
                      coinIn |-> coinIn, coinOut |-> coinOut,
                      amountIn |-> Dec(4), maxHops |-> maxHops]
          /\ ret' = [threw |-> FALSE,
                     value |-> findOptimalRouteLocal(apiPools, call')]
    /\ MathUnchanged

NextSdk ==
    \/ CallFindAllRoutes
    \/ CallFindOptimalRouteLocal

SpecSdk == InitMath /\ [][NextSdk]_vars

-----------------------------------------------------------------------------
(* Properties of the pool cache *)

PoolSet(list) == {list[i] : i \in 1..Len(list)}

Addresses(S) == {p.poolAddress : p \in S}

InFlight == {c \in Callers : refresh[c].pc # "idle"}

\* C1: at most one activation of refreshAllPools is in flight at any time.
C1_AtMostOneRefreshInFlight == Cardinality(InFlight) <= 1

\* The maps ps / byPair hold the pools of the list `all`, all of them and
\* nothing else: every address once in ps, every record in a pair list.
CompleteSnapshot(ps, byPair, all) ==
    /\ Addresses(PoolSet(ps)) = Addresses(PoolSet(all))
    /\ PoolSet(ps) \subseteq PoolSet(all)
    /\ Cardinality(Addresses(PoolSet(ps))) = Len(ps)
    /\ \A k \in DOMAIN byPair : PoolSet(byPair[k]) \subseteq PoolSet(all)
    /\ \A p \in PoolSet(all) : \E k \in DOMAIN byPair : p \in PoolSet(byPair[k])
    /\ Cardinality({e \in (DOMAIN byPair) \X (1..Len(all)) :
                        e[2] <= Len(byPair[e[1]])}) = Len(all)

SamePair(p, coinA, coinB) ==
    \/ p.coinA = coinA /\ p.coinB = coinB
    \/ p.coinA = coinB /\ p.coinB = coinA

\* C2: in every state a handler can run in, both maps hold exactly the pools
\* of the last completed refresh, and the read handled last was answered from
\* that complete set: never an emptied or half-built index, never pools of
\* two refreshes together.
C2_ReadersSeeCompleteSnapshot ==
    /\ CompleteSnapshot(pools, poolsByPair, published.allPools)
    /\ seen.op = "getAllPools" =>
          /\ Addresses(PoolSet(seen.result)) = Addresses(PoolSet(published.allPools))
          /\ PoolSet(seen.result) \subseteq PoolSet(published.allPools)
    /\ seen.op = "getPoolsForPair" =>
          /\ PoolSet(seen.result) \subseteq PoolSet(published.allPools)
          /\ \A p \in PoolSet(published.allPools) :
                SamePair(p, seen.args[1], seen.args[2]) => p \in PoolSet(seen.result)
    /\ seen.op = "getPool" =>
          IF seen.args[1] \in Addresses(PoolSet(published.allPools))
          THEN /\ Len(seen.result) = 1
               /\ seen.result[1] \in PoolSet(published.allPools)
               /\ seen.result[1].poolAddress = seen.args[1]
          ELSE seen.result = <<>>
    /\ seen.op = "getHealthStatus" =>
          seen.result.poolCount = Cardinality(Addresses(PoolSet(published.allPools)))

\* C2 witness: a read answered with pools while the scheduled and a manual
\* refresh are both suspended on a provider, after an earlier refresh.
C2_Witness ==
    /\ seen.op \in {"getAllPools", "getPoolsForPair"}
    /\ Len(seen.result) > 0
    /\ published.completed
    /\ InFlight = {"cron", "manual"}

FailedProviders(answers) == {p \in Providers : answers[p].outcome = "failed"}

ReturnedProviders(answers) == {p \in Providers : answers[p].outcome = "returned"}

PoolsReturned(answers) ==
    UNION {PoolSet(answers[p].pools) : p \in ReturnedProviders(answers)}

C5_PairLookupSymmetricAndExact ==
    seen.op = "getPoolsForPair" =>
        /\ seen.result = getPoolsForPair(poolsByPair, seen.args[2], seen.args[1])
        /\ PoolSet(seen.result)
              = {p \in PoolSet(pools) : SamePair(p, seen.args[1], seen.args[2])}

-----------------------------------------------------------------------------
(* Properties of the quotes *)

Quoted == PoolSet(quote.route \o quote.routes)

\* C3: no step of the best route or of an alternative uses a pool of an
\* excluded exchange.
C3_NoExcludedDex ==
    quote.status = 200 =>
        \A r \in Quoted : \A i \in 1..Len(r.steps) :
            r.steps[i].dexType \notin quote.request.excludeDexes

\* C6: every quoted route is a connected chain from the requested coinIn to
\* the requested coinOut, and every step names a cached pool of the step's
\* two coins.
C6_RoutesAreChains ==
    quote.status = 200 =>
        \A r \in Quoted :
            /\ Len(r.steps) >= 1
            /\ r.steps[1].coinIn = quote.request.coinIn
            /\ r.steps[Len(r.steps)].coinOut = quote.request.coinOut
            /\ \A i \in 1..(Len(r.steps) - 1) :
                  r.steps[i].coinOut = r.steps[i + 1].coinIn
            /\ \A i \in 1..Len(r.steps) :
                  \E p \in PoolSet(pools) :
                      /\ p.poolAddress = r.steps[i].poolAddress
                      /\ SamePair(p, r.steps[i].coinIn, r.steps[i].coinOut)

\* C6 witness: a quote with a 2-hop route whose first pool is entered from
\* its coinB, next to a single-hop alternative.
C6_Witness ==
    /\ quote.status = 200
    /\ \E r \in Quoted : Len(r.steps) = 1
    /\ \E r \in Quoted :
          /\ Len(r.steps) = 2
          /\ \E p \in PoolSet(pools) :
                /\ p.poolAddress = r.steps[1].poolAddress
                /\ p.coinB = r.steps[1].coinIn

\* C7: every quoted route has at least one and at most maxHops steps.
C7_AtMostMaxHops ==
    quote.status = 200 =>
        \A r \in Quoted :
            Len(r.steps) >= 1 /\ Len(r.steps) <= quote.request.maxHops

\* C7 witness: a quote for maxHops = 1 on a snapshot that has a 2-hop
\* candidate for the same request.
C7_Witness ==
    /\ quote.status = 200
    /\ quote.request.maxHops = 1
    /\ findMultiHopRoutes(pools, poolsByPair, quote.request.coinIn,
                          quote.request.coinOut, quote.request.amountIn, 2,
                          quote.request.excludeDexes) # <<>>

Linked(a, b, excludeDexes) ==
    \E p \in PoolSet(pools) :
        /\ SamePair(p, a, b)
        /\ p.dexType \notin excludeDexes
        /\ p.reserveA > 0 /\ p.reserveB > 0

RECURSIVE Connected(_, _, _, _)
Connected(a, b, hops, excludeDexes) ==
    /\ hops >= 1
    /\ \/ Linked(a, b, excludeDexes)
       \/ \E c \in Coins \ {a, b} :
             Linked(a, c, excludeDexes) /\ Connected(c, b, hops - 1, excludeDexes)

\* C8: a request whose coins are connected by at most maxHops pools that are
\* not excluded and have reserves is answered with a route.
C8_ConnectedIsQuoted ==
    ( /\ quote # NoQuote
      /\ quote.request.coinIn # quote.request.coinOut
      /\ RatGt(quote.request.amountIn, Dec(0))
      /\ quote.request.maxHops \in 1..MAX_HOPS
      /\ Connected(quote.request.coinIn, quote.request.coinOut,
                   quote.request.maxHops, quote.request.excludeDexes) )
    => quote.status = 200

-------------------------------------------------------------------\* Some chain of cached pools, of any length, leads from a to b.
Chained(a, b) == Connected(a, b, Cardinality(Coins) - 1, {})

Answered == quote.status # 0 /\ quote.searched

\* C11: a search between two coins that no chain of cached pools connects,
\* or whose candidates are all discarded because nothing can be priced, ends
\* in the no-route answer 404 with no route, never in another status.
C11_NoChainIsNoRoute ==
    ( /\ Answered
      /\ \/ ~Chained(quote.request.coinIn, quote.request.coinOut)
         \/ pools = <<>>
         \/ ~RatGt(quote.request.amountIn, Dec(0)) )
    => (quote.status = 404 /\ quote.route = <<>> /\ quote.routes = <<>>)

C11_Witness ==
    /\ Answered
    /\ pools # <<>>
    /\ RatGt(quote.request.amountIn, Dec(0))
    /\ quote.request.maxHops = MAX_HOPS
    /\ ~Chained(quote.request.coinIn, quote.request.coinOut)
    /\ quote.status = 404

\* C12: a request whose coin_in equals its coin_out is rejected with a
\* ValidationError and findBestRoute is not called for it.
C12_SameCoinsRejectedBeforeSearch ==
    (quote # NoQuote /\ quote.request.coinIn = quote.request.coinOut)
    => (quote.error = "ValidationError" /\ ~quote.searched)

C12_Witness ==
    /\ quote.error = "ValidationError"
    /\ quoteSchema(quote.request)
    /\ quote.request.coinIn = quote.request.coinOut
    /\ Linked(quote.request.coinIn, USDC, {})

\* C13: a request whose amount_in is not strictly positive is rejected with
\* a ValidationError and findBestRoute is not called for it.
C13_NonPositiveAmountRejected ==
    (quote # NoQuote /\ ~RatGt(quote.request.amountIn, Dec(0)))
    => (quote.error = "ValidationError" /\ ~quote.searched)

----------
(* Properties of the route selection *)

Distance(a, b) == RatAbs(RatSub(a.amountOut, b.amountOut))

TwoRanked ==
    /\ selOut.by \in {"RouterService", "MathUtils"}
    /\ Len(selIn) = 2

Min(x, y) == IF x < y THEN x ELSE y

\* C10: k candidates give the top-ranked route as best and min(k - 1, 5)
\* alternatives, the routes ranked 2nd to 6th in ranking order, the best
\* route not among them.
C10_FiveAlternatives ==
    selOut.by = "RouterService" =>
        LET k == Len(selIn)
            ranked == ArraySort("router", selIn)
        IN  /\ selOut.route = <<ranked[1]>>
            /\ Len(selOut.routes) = Min(k - 1, 5)
            /\ selOut.routes = SubSeq(ranked, 2, Min(k, 6))
            /\ \A i \in 1..Len(selOut.routes) :
                  selOut.routes[i].id # selOut.route[1].id

-----------------------------------------------------------------------------
(* Properties of the best pool of a pair *)

BestCalled == call.fn = "getBestPoolForPair"

PairOf == {p \in PoolSet(pools) : SamePair(p, call.coinA, call.coinB)}

Priced(p) == calculateOutput(p, call.coinA, call.amountIn)

Priceable == {p \in PairOf : ~Priced(p).threw}

\* C19: the pool returned is a pool of the pair whose output is at least
\* that of every priceable pool of the pair; null is returned exactly when
\* no pool of the pair can be priced (none cached, or every evaluation
\* fails), so one priceable pool is enough for a pool to be returned.
C19_BestPoolMaximisesOutput ==
    BestCalled =>
        /\ (ret.value[1] = <<>>) <=> (Priceable = {})
        /\ ret.value[1] # <<>> =>
              /\ ret.value[1][1] \in Priceable
              /\ \A p \in Priceable :
                    RatGte(Priced(ret.value[1][1]).value[1], Priced(p).value[1])

C19_Witness ==
    /\ BestCalled
    /\ ret.value[1] # <<>>
    /\ PairOf \ Priceable # {}
    /\ pools[1] \notin Priceable
    /\ Priced(ret.value[1][1]).value[1] = <<16, 3>>

-----------------------------------------------------------------------------
(* Properties of a failed refresh *)

\* The step in which an activation of refreshAllPools ends by throwing.
RefreshFails ==
    \E c \in Callers :
        /\ refresh[c].pc # "idle"
        /\ refresh'[c].pc = "idle"
        /\ ~published'.completed

\* C20: the step in which refreshAllPools throws leaves pools, the pair index
\* and lastUpdateTime as they were, so that readers keep the snapshot
\* published before.
C20_FailedRefreshKeepsSnapshot ==
    [][RefreshFails => UNCHANGED <<pools, poolsByPair, lastUpdateTime>>]_vars

\* C24: a quote request that fails validation is answered 400 and the
\* process is still serving afterwards.
C24_ValidationKeepsServing ==
    quote.error = "ValidationError" =>
        (quote.status = 400 /\ phase = "listening")

-----------------------------------------------------------------------------
(* Properties of quotes on a snapshot with a depleted pool *)

IsDepleted(p) == p.reserveA <= 0 \/ p.reserveB <= 0

\* The same snapshot without its depleted pools.
Healthy ==
    BuildIndex([pools |-> <<>>, poolsByPair |-> EmptyMap],
               SelectSeq(getAllPools(pools), LAMBDA p : ~IsDepleted(p)))

\* The candidates that the search finds when the depleted pools are not there.
OtherCandidates ==
    findAllRoutes(Healthy.pools, Healthy.poolsByPair, quote.request.coinIn,
                  quote.request.coinOut, quote.request.amountIn,
                  quote.request.maxHops, quote.request.excludeDexes)

RoutesAnswered == quote.route \o quote.routes

\* C21: a pool with a zero or negative reserve costs only the candidates
\* through it: every candidate that the other pools give is still among the
\* routes answered (the best route and its alternatives), and if there is
\* one the answer is a route, not "no route".
C21_DepletedPoolDiscardedAlone ==
    quote.searched =>
        Bind(OtherCandidates, LAMBDA others :
            /\ Len(others) <= 5
            /\ \A i \in 1..Len(others) :
                  \E j \in 1..Len(RoutesAnswered) : RoutesAnswered[j] = others[i]
            /\ Len(others) > 0 => (quote.status = 200 /\ quote.route # <<>>))

\* A quote answered with a route although the pair asked for has a depleted
\* pool of its own.
C21_Witness ==
    /\ quote.searched
    /\ quote.status = 200
    /\ \E i \in 1..Len(pools) :
          /\ IsDepleted(pools[i])
          /\ SamePair(pools[i], quote.request.coinIn, quote.request.coinOut)
          /\ ~Includes(quote.request.excludeDexes, pools[i].dexType)

-----------------------------------------------------------------------------
(* Properties of the pricing functions *)

Positive(x) == DecGt(x, D(0))

PricingDomain ==
    /\ Positive(call.amountIn)
    /\ Positive(call.reserveIn)
    /\ Positive(call.reserveOut)
    /\ call.feeRateBp >= 0
    /\ call.feeRateBp < 10000

Priced14(amountIn) ==
    IF call.fn = "getAmountOut"
    THEN getAmountOut(amountIn, call.reserveIn, call.reserveOut, call.feeRateBp)
    ELSE calculateOutputDecimal(amountIn, call.reserveIn, call.reserveOut,
                                call.feeRateBp)

\* C14: for positive amount and reserves and a fee below 10000 bp, the output
\* of getAmountOut and of calculateOutput is strictly less than reserveOut,
\* and a smaller amountIn gives a strictly smaller output.
C14_OutputBelowReserveAndIncreasing ==
    (call.fn \in {"getAmountOut", "calculateOutput"} /\ PricingDomain) =>
        /\ ~ret.threw
        /\ DecLt(ret.value[1], call.reserveOut)
        /\ \A smaller \in MathAmounts :
              (Positive(smaller) /\ DecLt(smaller, call.amountIn))
              => DecLt(Priced14(smaller).value[1], ret.value[1])

\* C15: for positive x and reserves and a fee below 10000 bp, getAmountIn of
\* the output quoted for x does not throw and is at least x.
C15_NeverUnderQuote ==
    (call.fn = "getAmountIn" /\ PricingDomain) =>
        /\ ~ret.threw
        /\ DecGte(ret.value[1], call.amountIn)

\* C18: calculateMinOutput throws when the tolerance exceeds 10000 bp or the
\* minimum output would be negative, and never returns a negative value.
C18_MinOutputNeverNegative ==
    call.fn = "calculateMinOutput" =>
        /\ call.slippageToleranceBp > 10000 => ret.threw
        /\ ~ret.threw => DecGte(ret.value[1], D(0))

-----------------------------------------------------------------------------
(* Properties of the Move math functions *)

RoundTrip ==
    /\ call.fn = "get_amount_in"
    /\ call.amount_in > 0
    /\ call.fee_rate_bp < BASIS_POINTS
    /\ call.amount_out > 0

ImpactOf(amount_in) ==
    calculate_price_impact(amount_in,
                           get_amount_out(amount_in, call.reserve_in,
                                          call.reserve_out, call.fee_rate_bp),
                           call.reserve_in, call.reserve_out)

\* C17: for fixed reserves and fee, the price impact of a smaller trade is
\* never larger than that of a bigger one, and the impact is 0 whenever the
\* execution price is at least the spot price.
C17_PriceImpactGrowsWithSize ==
    (call.fn = "calculate_price_impact" /\ call.amount_in > 0) =>
        /\ \A smaller \in MoveAmounts :
              (smaller > 0 /\ smaller < call.amount_in)
              => ImpactOf(smaller) <= ret
        /\ execution_price(call.amount_in, call.amount_out)
             >= spot_price(call.reserve_in, call.reserve_out) => ret = 0

-----------------------------------------------------------------------------
(* Properties of the Move router *)

Config == chain.config[AGGREGATOR]

AdminCalls == {"set_fee_rate", "set_pause_status", "update_fee_collector"}

\* The fields of the config that an admin function is not about.
OtherFields(fn, c) ==
    [admin |-> c.admin,
     fee_rate |-> IF fn = "set_fee_rate" THEN 0 ELSE c.fee_rate,
     fee_collector |-> IF fn = "update_fee_collector" THEN None
                       ELSE c.fee_collector,
     paused |-> IF fn = "set_pause_status" THEN FALSE ELSE c.paused]

\* C22: once @aggregator holds its config, an admin function signed by
\* another address aborts with permission_denied and changes nothing, one
\* signed by the admin changes only its own field, and no call by any signer
\* changes the recorded admin.
C22_AdminFunctionsProtected ==
    [][Config.exists =>
        /\ Config'.exists /\ Config'.admin = Config.admin
        /\ (call'.fn \in AdminCalls /\ call'.signer # Config.admin) =>
              /\ ret'.threw /\ ret'.value = <<"permission_denied">>
              /\ chain'.config = chain.config
        /\ (call'.fn \in AdminCalls /\ call'.signer = Config.admin) =>
              /\ ~ret'.threw
              /\ OtherFields(call'.fn, Config') = OtherFields(call'.fn, Config)
              /\ \A a \in Accounts \ {AGGREGATOR} :
                    chain'.config[a] = chain.config[a]]_vars

\* An admin function refused to a signer that is not the admin.
C22_Witness ==
    /\ Config.exists
    /\ call.fn \in AdminCalls
    /\ call.signer # Config.admin
    /\ ret.value = <<"permission_denied">>

Swaps == {"swap_exact_input", "swap_exact_input_multihop"}

\* C23: while the config is paused both swap functions abort with
\* permission_denied, whatever their arguments, and emit nothing; a swap
\* called while it is not paused does not abort with permission_denied; and
\* paused is what the admin last asked for, false after initialize.
C23_PauseStopsSwaps ==
    [][/\ (Config.exists /\ Config.paused /\ call'.fn \in Swaps) =>
            /\ ret'.value = <<"permission_denied">>
            /\ chain' = chain
       /\ (Config.exists /\ ~Config.paused /\ call'.fn \in Swaps) =>
            ret'.value # <<"permission_denied">>
       /\ Config'.exists => Config'.paused = chain'.pauseAsked]_vars

\* A swap refused while paused, with arguments that would pass the checks
\* that follow.
C23_Witness ==
    /\ Config.exists
    /\ Config.paused
    /\ call.fn = "swap_exact_input"
    /\ call.arg = <<DEX_CETUS, 5>>
    /\ ret.value = <<"permission_denied">>

\* C30: the fee rate of the config is never above 10000 basis points.
C30_FeeRateIsBasisPoints ==
    Config.exists => Config.fee_rate <= BASIS_POINTS

-----------------------------------------------------------------------------
(* Properties of the SDK's local route search *)

\* The pool paths from a coin to another that visit no coin twice and use
\* at most hops pools.
RECURSIVE SimplePaths(_, _, _, _, _)
SimplePaths(from, to, graph, hops, visited) ==
    IF hops = 0 THEN {}
    ELSE UNION {IF graph[from][k].coinOut \in visited \cup {from} THEN {}
                ELSE IF graph[from][k].coinOut = to THEN {<<graph[from][k]>>}
                ELSE {<<graph[from][k]>> \o rest :
                        rest \in SimplePaths(graph[from][k].coinOut, to, graph,
                                             hops - 1, visited \cup {from})} :
                k \in 1..Len(graph[from])}

\* C25: findAllRoutes returns exactly the pool paths from coinIn to coinOut
\* that visit no coin twice and use at most maxHops pools.
C25_AllSimplePathsWithinMaxHops ==
    call.fn = "findAllRoutes" =>
        {ret.value[1][k] : k \in 1..Len(ret.value[1])}
          = SimplePaths(call.coinIn, call.coinOut, buildPoolGraph(call.pools),
                        call.maxHops, {})

PoolAt(address) ==
    CHOOSE pool \in {call.pools[k] : k \in 1..Len(call.pools)} :
        pool.pool_address = address

ReserveOf(pool, coin) ==
    Dec(IF pool.coin_a = coin THEN pool.reserve_a ELSE pool.reserve_b)

DirectedChain(route) ==
    /\ route.steps[1].coinIn = call.coinIn
    /\ route.steps[Len(route.steps)].coinOut = call.coinOut
    /\ \A i \in 1..(Len(route.steps) - 1) :
          route.steps[i].coinOut = route.steps[i + 1].coinIn
    /\ \A i \in 1..Len(route.steps) :
          Bind(route.steps[i], LAMBDA step :
              Value(step.amountOut)
                = getAmountOutExact(step.amountIn,
                                    ReserveOf(PoolAt(step.poolAddress), step.coinIn),
                                    ReserveOf(PoolAt(step.poolAddress), step.coinOut),
                                    step.feeRate))

\* C26: every route of a result of findOptimalRouteLocal starts at the coin
\* asked for, ends at the coin wanted, chains each step's coinOut to the next
\* step's coinIn, and prices each step with the reserve of its coinIn as
\* reserveIn and of its coinOut as reserveOut.
C26_LocalRoutesAreDirectedChains ==
    (call.fn = "findOptimalRouteLocal" /\ ret.value # <<>>) =>
        /\ DirectedChain(ret.value[1].route)
        /\ \A k \in 1..Len(ret.value[1].routes) :
              DirectedChain(ret.value[1].routes[k])

-----------------------------------------------------------------------------
(* Properties of the two indexes of the cache *)

RECURSIVE PairListsTotal(_, _)
PairListsTotal(byPair, keys) ==
    IF keys = {} THEN 0
    ELSE LET k == CHOOSE x \in keys : TRUE
         IN  Len(byPair[k]) + PairListsTotal(byPair, keys \ {k})

\* The places <<pairKey, i>> of the pair lists that hold the pool.
PlacesOf(byPair, pool) ==
    {e \in (DOMAIN byPair) \X (1..PairListsTotal(byPair, DOMAIN byPair)) :
        e[2] <= Len(byPair[e[1]]) /\ byPair[e[1]][e[2]] = pool}

IndexesAgree(ps, byPair) ==
    /\ \A k \in DOMAIN byPair : \A i \in 1..Len(byPair[k]) :
          getPool(ps, byPair[k][i].poolAddress) = <<byPair[k][i]>>
    /\ \A i \in 1..Len(getAllPools(ps)) :
          Cardinality(PlacesOf(byPair, getAllPools(ps)[i])) = 1
    /\ getPoolCount(ps) = PairListsTotal(byPair, DOMAIN byPair)

\* C27: after a completed refresh every pool of a pair list is the pool that
\* getPool returns for its address, every pool of getAllPools is in exactly
\* one pair list exactly once, and getPoolCount is the total length of the
\* pair lists.
C27_IndexesAgree ==
    published.completed => IndexesAgree(pools, poolsByPair)

-----------------------------------------------------------------------------
(* Properties of overlapping refreshes *)

\* The activation c stores its snapshot in this step.
Stores(c) ==
    /\ refresh[c].pc = "awaitLiquidSwap"
    /\ refresh'[c].pc = "idle"
    /\ published'.completed

\* C28: an activation of refreshAllPools never replaces the snapshot stored
\* by an activation that was entered after it, and lastUpdateTime never
\* decreases.
C28_NoStaleOverwrite ==
    [][/\ \A c \in Callers : Stores(c) => ~refresh[c].overtaken
       /\ lastUpdateTime' >= lastUpdateTime]_vars

-----------------------------------------------------------------------------
(* Properties of the selection among three or more candidates *)

\* C29: of three or more candidates, the route returned as best by
\* RouterService.findBestRoute or by MathUtils.findBestRoute has an amountOut
\* no more than 0.001 below the amountOut of any candidate.
C29_BestWithinEpsilonOfLargest ==
    (selOut.by \in {"RouterService", "MathUtils"} /\ Len(selIn) >= 3) =>
        \A i \in 1..Len(selIn) :
            RatLte(RatSub(selIn[i].amountOut, selOut.route[1].amountOut),
                   EPSILON)

====
